---------------------------- MODULE Spec2Model ----------------------------
(***************************************************************************)
(* A model of the swimset backend core: the time codec (parseTime.ts),     *)
(* the shorthand interpreter (core/dsl/interpreter.ts) and the workout     *)
(* generator (core/generator/generator.ts).                                *)
(*                                                                         *)
(* A JavaScript string is a sequence of characters, each character a       *)
(* one-character TLA+ string.  An optional value (T | undefined) is a      *)
(* sequence of length 0 (undefined) or 1 (the value).  A function of the   *)
(* source is written as a chain of operators, each local constant of the   *)
(* source being the parameter of the next operator of the chain.           *)
(***************************************************************************)
EXTENDS Integers, Sequences, FiniteSets, TLC

\* ------------------------------------------------------------------------
\* Optional values
\* ------------------------------------------------------------------------
None == <<>>
Some(x) == <<x>>
IsSome(o) == Len(o) = 1
Get(o) == o[1]

\* ------------------------------------------------------------------------
\* Characters and the string primitives the code uses
\* ------------------------------------------------------------------------
DigitChars == <<"0", "1", "2", "3", "4", "5", "6", "7", "8", "9">>
Digits == {"0", "1", "2", "3", "4", "5", "6", "7", "8", "9"}
IsDigit(c) == c \in Digits
DigitVal(c) == (CHOOSE i \in 1..10 : DigitChars[i] = c) - 1

\* The members of ECMAScript WhiteSpace and LineTerminator that occur in
\* the model's alphabet (String.prototype.trim and the regex class \s).
WhiteSpace == {" ", "\t", "\n", "\r"}
IsSpace(c) == c \in WhiteSpace

UpperChars == <<"A","B","C","D","E","F","G","H","I","J","K","L","M",
                "N","O","P","Q","R","S","T","U","V","W","X","Y","Z">>
LowerChars == <<"a","b","c","d","e","f","g","h","i","j","k","l","m",
                "n","o","p","q","r","s","t","u","v","w","x","y","z">>
LowerChar(c) ==
  IF \E i \in 1..26 : UpperChars[i] = c
  THEN LowerChars[CHOOSE i \in 1..26 : UpperChars[i] = c]
  ELSE c
toLowerCase(s) == [i \in 1..Len(s) |-> LowerChar(s[i])]

Min(S) == CHOOSE x \in S : \A y \in S : x <= y
Max(S) == CHOOSE x \in S : \A y \in S : x >= y

\* String.prototype.trim
trimTo(s, keep) == IF keep = {} THEN <<>> ELSE SubSeq(s, Min(keep), Max(keep))
trim(s) == trimTo(s, {i \in 1..Len(s) : ~IsSpace(s[i])})

startsWith(s, p) == Len(s) >= Len(p) /\ SubSeq(s, 1, Len(p)) = p
endsWith(s, p) == Len(s) >= Len(p) /\ SubSeq(s, Len(s) - Len(p) + 1, Len(s)) = p
includes(s, c) == \E i \in 1..Len(s) : s[i] = c

\* The pieces of s cut out by the separators in cuts; a separator is a
\* pair <<e, n>>: the piece before it ends at e, the piece after it starts
\* at n.  Separators do not overlap.
firstCut(cuts) == CHOOSE x \in cuts : \A y \in cuts : x[1] <= y[1]
RECURSIVE piecesFrom(_, _, _)
piecesAt(s, start, cuts, c) ==
  <<SubSeq(s, start, c[1])>> \o piecesFrom(s, c[2], cuts)
piecesLater(s, start, cuts, later) ==
  IF later = {} THEN <<SubSeq(s, start, Len(s))>>
  ELSE piecesAt(s, start, cuts, firstCut(later))
piecesFrom(s, start, cuts) ==
  piecesLater(s, start, cuts, {c \in cuts : c[1] >= start - 1})

\* String.prototype.split(c) for a one-character separator c
split(s, c) ==
  piecesFrom(s, 1, {<<i - 1, i + 1>> : i \in {j \in 1..Len(s) : s[j] = c}})

\* String.prototype.split(/\r?\n/)
splitLines(s) ==
  piecesFrom(s, 1, {<<IF p > 1 /\ s[p - 1] = "\r" THEN p - 2 ELSE p - 1, p + 1>> :
                      p \in {i \in 1..Len(s) : s[i] = "\n"}})

\* String.prototype.split(/\s+/)
spaceAt(s, i) == i >= 1 /\ i <= Len(s) /\ IsSpace(s[i])
runEnd(s, i) == Min({j \in i..Len(s) : spaceAt(s, j) /\ ~spaceAt(s, j + 1)})
splitWs(s) ==
  piecesFrom(s, 1, {<<i - 1, runEnd(s, i) + 1>> :
                      i \in {j \in 1..Len(s) : spaceAt(s, j) /\ ~spaceAt(s, j - 1)}})

\* Array.prototype.join
RECURSIVE join(_, _)
join(parts, sep) ==
  IF Len(parts) = 0 THEN <<>>
  ELSE IF Len(parts) = 1 THEN parts[1]
  ELSE parts[1] \o sep \o join(Tail(parts), sep)

\* The decimal text of a non-negative integer (Number.prototype.toString)
RECURSIVE toString(_)
toString(n) ==
  IF n < 10 THEN <<DigitChars[n + 1]>>
  ELSE toString(n \div 10) \o <<DigitChars[(n % 10) + 1]>>

\* The value of a run of decimal digits
RECURSIVE digitsValue(_)
digitsValue(ds) ==
  IF Len(ds) = 0 THEN 0
  ELSE 10 * digitsValue(SubSeq(ds, 1, Len(ds) - 1)) + DigitVal(ds[Len(ds)])

\* The longest prefix of s made of digits
prefixBefore(s, stop) == IF stop = {} THEN s ELSE SubSeq(s, 1, Min(stop) - 1)
digitPrefix(s) == prefixBefore(s, {i \in 1..Len(s) : ~IsDigit(s[i])})

\* Number.parseInt(s, 10): leading white space is skipped, one sign is
\* read, then the longest run of digits; what follows the digits is
\* ignored.  None stands for NaN.
parseDigits(ds, sign) ==
  IF Len(ds) = 0 THEN None ELSE Some(sign * digitsValue(ds))
parseSigned(t) ==
  IF Len(t) > 0 /\ t[1] = "-" THEN parseDigits(digitPrefix(Tail(t)), -1)
  ELSE IF Len(t) > 0 /\ t[1] = "+" THEN parseDigits(digitPrefix(Tail(t)), 1)
  ELSE parseDigits(digitPrefix(t), 1)
dropLeading(s, body) == IF body = {} THEN <<>> ELSE SubSeq(s, Min(body), Len(s))
parseInt(s) == parseSigned(dropLeading(s, {i \in 1..Len(s) : ~IsSpace(s[i])}))

\* Math.round of the rational num / den (den > 0): halves round up
MathRound(num, den) == (2 * num + den) \div (2 * den)

\* String.prototype.padStart(2, '0')
\* Variant of padStart2: the text is left as it is
padStartNone(s) == s

padStart2(s) == IF Len(s) >= 2 THEN s ELSE <<"0">> \o s

\* ------------------------------------------------------------------------
\* Time codec
\* ------------------------------------------------------------------------
parseMinutesSeconds(minutes, seconds) ==
  IF \/ ~IsSome(minutes) \/ ~IsSome(seconds)
     \/ Get(minutes) < 0 \/ Get(seconds) < 0 \/ Get(seconds) >= 60
  THEN None
  ELSE Some(Get(minutes) * 60 + Get(seconds))

parseTimeParts(parts) ==
  IF Len(parts) # 2 THEN None
  ELSE parseMinutesSeconds(parseInt(parts[1]), parseInt(parts[2]))

parseTimeBare(asSeconds) ==
  IF ~IsSome(asSeconds) \/ Get(asSeconds) < 0 THEN None ELSE asSeconds

parseTimeTrimmed(trimmed) ==
  IF Len(trimmed) = 0 THEN None
  ELSE IF includes(trimmed, ":") THEN parseTimeParts(split(trimmed, ":"))
  ELSE parseTimeBare(parseInt(trimmed))

parseTimeToSeconds(input) ==
  IF Len(input) = 0 THEN None ELSE parseTimeTrimmed(trim(input))

formatWhole(wholeSeconds) ==
  Some(toString(wholeSeconds \div 60) \o <<":">> \o padStart2(toString(wholeSeconds % 60)))

formatSecondsAsTime(totalSeconds) ==
  IF ~IsSome(totalSeconds) THEN None
  ELSE IF Get(totalSeconds) < 0 THEN None
  ELSE formatWhole(MathRound(Get(totalSeconds), 1))

\* ------------------------------------------------------------------------
\* Interpreter: string constants
\* ------------------------------------------------------------------------
S_main == <<"m", "a", "i", "n">>
S_pool == <<"p", "o", "o", "l">>
S_duration == <<"d", "u", "r", "a", "t", "i", "o", "n">>
S_title == <<"t", "i", "t", "l", "e">>
S_focus == <<"f", "o", "c", "u", "s">>
S_profile == <<"p", "r", "o", "f", "i", "l", "e">>
S_unknown == <<"u", "n", "k", "n", "o", "w", "n">>
S_proto == <<"_", "_", "p", "r", "o", "t", "o", "_", "_">>

\* ------------------------------------------------------------------------
\* Interpreter: header directives
\* ------------------------------------------------------------------------
EmptyHeader ==
  [poolLengthMeters |-> None, plannedDurationMinutes |-> None,
   title |-> None, focus |-> None, profile |-> None]

ParseError(lineNumber, message, quoted) ==
  [lineNumber |-> lineNumber, message |-> message, quoted |-> quoted]

\* source.match(/(\d+)/) and Number.parseInt of the match: the leftmost
\* maximal run of digits
firstDigits(source, ds) ==
  IF ds = {} THEN None
  ELSE parseInt(digitPrefix(SubSeq(source, Min(ds), Len(source))))
extractInteger(source) ==
  IF Len(source) = 0 THEN None
  ELSE firstDigits(source, {i \in 1..Len(source) : IsDigit(source[i])})

\* handleHeaderLine returns a boolean and mutates header and errors: the
\* model returns the three.
HeaderResult(handled, header, errors) ==
  [handled |-> handled, header |-> header, errors |-> errors]

\* Variant of headerPool: a pool directive without a number clears the pool
\* length an earlier directive has set
headerPoolErase(meters, trimmedLine, header, lineNumber, errors) ==
  IF IsSome(meters)
  THEN HeaderResult(TRUE, [header EXCEPT !.poolLengthMeters = meters], errors)
  ELSE HeaderResult(TRUE, [header EXCEPT !.poolLengthMeters = None],
         Append(errors, ParseError(lineNumber, "Unable to parse pool length from", trimmedLine)))

headerPool(meters, trimmedLine, header, lineNumber, errors) ==
  IF IsSome(meters)
  THEN HeaderResult(TRUE, [header EXCEPT !.poolLengthMeters = meters], errors)
  ELSE HeaderResult(TRUE, header,
         Append(errors, ParseError(lineNumber, "Unable to parse pool length from", trimmedLine)))

headerDuration(minutes, trimmedLine, header, lineNumber, errors) ==
  IF IsSome(minutes)
  THEN HeaderResult(TRUE, [header EXCEPT !.plannedDurationMinutes = minutes], errors)
  ELSE HeaderResult(TRUE, header,
         Append(errors, ParseError(lineNumber, "Unable to parse duration from", trimmedLine)))

headerSwitch(key, firstToken, restJoined, trimmedLine, header, lineNumber, errors) ==
  IF key = S_pool THEN
    headerPool(extractInteger(IF Len(restJoined) > 0 THEN restJoined ELSE firstToken),
               trimmedLine, header, lineNumber, errors)
  ELSE IF key = S_duration THEN
    headerDuration(extractInteger(restJoined), trimmedLine, header, lineNumber, errors)
  ELSE IF key = S_title THEN
    HeaderResult(TRUE, [header EXCEPT !.title = Some(restJoined)], errors)
  ELSE IF key = S_focus THEN
    HeaderResult(TRUE, [header EXCEPT !.focus = Some(restJoined)], errors)
  ELSE IF key = S_profile THEN
    HeaderResult(TRUE, [header EXCEPT !.profile = Some(restJoined)], errors)
  ELSE HeaderResult(FALSE, header, errors)

headerTokens(tokens, trimmedLine, header, lineNumber, errors) ==
  IF Len(tokens[1]) = 0 THEN HeaderResult(FALSE, header, errors)
  ELSE headerSwitch(toLowerCase(tokens[1]), tokens[1], join(Tail(tokens), <<" ">>),
                    trimmedLine, header, lineNumber, errors)

handleHeaderLine(trimmedLine, header, lineNumber, errors) ==
  headerTokens(splitWs(trimmedLine), trimmedLine, header, lineNumber, errors)

\* ------------------------------------------------------------------------
\* Interpreter: set lines
\* ------------------------------------------------------------------------
IsDigits(s) == Len(s) > 0 /\ \A i \in 1..Len(s) : IsDigit(s[i])

\* /^(?:(\d+)x)?(\d+)\s+(\S+)(?:\s+@(\S+))?(?:\s+(\S+))?$/ applied to line.
\* The groups \S+ are maximal runs of non-space characters, so a match
\* splits the line at its runs of white space into two to four tokens; the
\* third token is the time group when it is "@" and at least one more
\* character, and is the intensity group otherwise.  The result is None
\* (no match) or Some of the five groups, an unmatched group being None.
regexGroups(h, stroke, time, intensity) ==
  Some([repsStr |-> h.repsStr, distanceStr |-> h.distanceStr,
        strokeToken |-> stroke, timeToken |-> time, intensityToken |-> intensity])

isTimeToken(t) == Len(t) >= 2 /\ t[1] = "@"

regexTail(tokens, h) ==
  IF Len(tokens) = 2 THEN regexGroups(h, tokens[2], None, None)
  ELSE IF Len(tokens) = 3 THEN
    IF isTimeToken(tokens[3])
    THEN regexGroups(h, tokens[2], Some(Tail(tokens[3])), None)
    ELSE regexGroups(h, tokens[2], None, Some(tokens[3]))
  ELSE IF Len(tokens) = 4 /\ isTimeToken(tokens[3])
  THEN regexGroups(h, tokens[2], Some(Tail(tokens[3])), Some(tokens[4]))
  ELSE None

\* (?:(\d+)x)?(\d+) applied to the whole first token
regexHeadAt(head, xs) ==
  IF xs = {} THEN None
  ELSE Some([repsStr |-> Some(SubSeq(head, 1, Min(xs) - 1)),
             distanceStr |-> SubSeq(head, Min(xs) + 1, Len(head))])
regexHead(head) ==
  IF IsDigits(head) THEN Some([repsStr |-> None, distanceStr |-> head])
  ELSE regexHeadAt(head, {i \in 1..Len(head) :
                            /\ head[i] = "x"
                            /\ IsDigits(SubSeq(head, 1, i - 1))
                            /\ IsDigits(SubSeq(head, i + 1, Len(head)))})

regexTokens(tokens, h) == IF IsSome(h) THEN regexTail(tokens, Get(h)) ELSE None

SET_LINE_REGEX(line) ==
  IF Len(line) = 0 \/ IsSpace(line[1]) \/ IsSpace(line[Len(line)]) THEN None
  ELSE regexTokens(splitWs(line), regexHead(splitWs(line)[1]))

\* parseSetLine returns a set or null and appends to errors: the model
\* returns [set, errors].
repsError(m, reps, lineNumber) ==
  IF reps <= 0
  THEN <<ParseError(lineNumber, "Invalid reps value",
                    IF IsSome(m.repsStr) THEN Get(m.repsStr) ELSE <<>>)>>
  ELSE <<>>
distanceError(m, distanceMeters, lineNumber) ==
  IF distanceMeters <= 0
  THEN <<ParseError(lineNumber, "Invalid distance value", m.distanceStr)>>
  ELSE <<>>
\* Variant of timeError: a rejected time token is dropped in silence
timeErrorQuiet(m, parsedSeconds, lineNumber) == <<>>

timeError(m, parsedSeconds, lineNumber) ==
  IF IsSome(m.timeToken) /\ ~IsSome(parsedSeconds)
  THEN <<ParseError(lineNumber, "Invalid time format", Get(m.timeToken))>>
  ELSE <<>>

parseSetValues(m, reps, distanceMeters, parsedSeconds, currentSection, lineNumber, errors) ==
  [set |-> Some([section |-> currentSection,
                 reps |-> IF reps > 0 THEN reps ELSE 0,
                 distanceMeters |-> IF distanceMeters > 0 THEN distanceMeters ELSE 0,
                 stroke |-> m.strokeToken,
                 sendOffSeconds |-> parsedSeconds,
                 intensity |-> m.intensityToken]),
   errors |-> errors \o repsError(m, reps, lineNumber)
                     \o distanceError(m, distanceMeters, lineNumber)
                     \o timeError(m, parsedSeconds, lineNumber)]

\* Variant of parseSetGroups: a missing reps prefix is parsed like an empty
\* one, and so counts as no repetition at all
parseSetGroupsNoDefault(m, currentSection, lineNumber, errors) ==
  parseSetValues(m,
    IF IsSome(m.repsStr) THEN Get(parseInt(Get(m.repsStr))) ELSE 0,
    Get(parseInt(m.distanceStr)),
    IF IsSome(m.timeToken) THEN parseTimeToSeconds(Get(m.timeToken)) ELSE None,
    currentSection, lineNumber, errors)

parseSetGroups(m, currentSection, lineNumber, errors) ==
  parseSetValues(m,
    IF IsSome(m.repsStr) THEN Get(parseInt(Get(m.repsStr))) ELSE 1,
    Get(parseInt(m.distanceStr)),
    IF IsSome(m.timeToken) THEN parseTimeToSeconds(Get(m.timeToken)) ELSE None,
    currentSection, lineNumber, errors)

\* Variant of parseSetMatch: a line outside the grammar is dropped in silence
parseSetMatchQuiet(match, currentSection, lineNumber, errors) ==
  IF ~IsSome(match)
  THEN [set |-> None, errors |-> errors]
  ELSE parseSetGroups(Get(match), currentSection, lineNumber, errors)

parseSetMatch(match, currentSection, lineNumber, errors) ==
  IF ~IsSome(match)
  THEN [set |-> None,
        errors |-> Append(errors, ParseError(lineNumber, "Unrecognized set syntax.", <<>>))]
  ELSE parseSetGroups(Get(match), currentSection, lineNumber, errors)

parseSetLine(trimmedLine, currentSection, lineNumber, errors) ==
  parseSetMatch(SET_LINE_REGEX(trimmedLine), currentSection, lineNumber, errors)

\* ------------------------------------------------------------------------
\* Interpreter: totals and the duration estimate
\* ------------------------------------------------------------------------
\* A JavaScript value held in a totals bucket: a number, or the string
\* that + produces when the left operand is not a number.
Num(n) == [t |-> "number", v |-> n, s |-> <<>>]
Str(s) == [t |-> "string", v |-> 0, s |-> s]
Undefined == [t |-> "undefined", v |-> 0, s |-> <<>>]
Inherited(key) == [t |-> "object", v |-> 0, s |-> <<"[">> \o key \o <<"]">>]

\* The property names every object created by {} inherits from
\* Object.prototype.
ObjectPrototypeKeys ==
  {<<"c", "o", "n", "s", "t", "r", "u", "c", "t", "o", "r">>,
   <<"_", "_", "p", "r", "o", "t", "o", "_", "_">>,
   <<"h", "a", "s", "O", "w", "n", "P", "r", "o", "p", "e", "r", "t", "y">>,
   <<"i", "s", "P", "r", "o", "t", "o", "t", "y", "p", "e", "O", "f">>,
   <<"p", "r", "o", "p", "e", "r", "t", "y", "I", "s", "E", "n", "u", "m", "e", "r", "a", "b", "l", "e">>,
   <<"t", "o", "L", "o", "c", "a", "l", "e", "S", "t", "r", "i", "n", "g">>,
   <<"t", "o", "S", "t", "r", "i", "n", "g">>,
   <<"v", "a", "l", "u", "e", "O", "f">>,
   <<"_", "_", "d", "e", "f", "i", "n", "e", "G", "e", "t", "t", "e", "r", "_", "_">>,
   <<"_", "_", "d", "e", "f", "i", "n", "e", "S", "e", "t", "t", "e", "r", "_", "_">>,
   <<"_", "_", "l", "o", "o", "k", "u", "p", "G", "e", "t", "t", "e", "r", "_", "_">>,
   <<"_", "_", "l", "o", "o", "k", "u", "p", "S", "e", "t", "t", "e", "r", "_", "_">>}

\* obj[key] for an object created by {}: an own property, else the
\* inherited one, else undefined
objGet(obj, key) ==
  IF key \in DOMAIN obj THEN obj[key]
  ELSE IF key \in ObjectPrototypeKeys THEN Inherited(key)
  ELSE Undefined

\* obj[key] = val: creates or overwrites an own property, except for
\* __proto__, whose inherited setter ignores a value that is no object
objSet(obj, key, val) ==
  IF key = S_proto THEN obj
  ELSE [k \in (DOMAIN obj) \cup {key} |-> IF k = key THEN val ELSE obj[k]]

\* (a ?? 0) + n
addTo(a, n) ==
  IF a.t = "undefined" THEN Num(n)
  ELSE IF a.t = "number" THEN Num(a.v + n)
  ELSE Str(a.s \o toString(n))

\* obj[key] = (obj[key] ?? 0) + n
bucketAdd(obj, key, n) == objSet(obj, key, addTo(objGet(obj, key), n))

EmptyObject == [k \in {} |-> Undefined]

EmptyTotals ==
  [totalDistanceMeters |-> 0, distanceBySection |-> EmptyObject,
   distanceByIntensity |-> EmptyObject, estimatedMinutes |-> None]

totalsAdd(acc, sectionKey, intensityKey, distanceForSet) ==
  [totalDistanceMeters |-> acc.totalDistanceMeters + distanceForSet,
   distanceBySection |-> bucketAdd(acc.distanceBySection, sectionKey, distanceForSet),
   distanceByIntensity |-> bucketAdd(acc.distanceByIntensity, intensityKey, distanceForSet),
   estimatedMinutes |-> None]

totalsAddSet(acc, set) ==
  totalsAdd(acc, set.section,
            IF IsSome(set.intensity) THEN Get(set.intensity) ELSE S_unknown,
            set.reps * set.distanceMeters)

RECURSIVE computeTotalsFrom(_, _, _)
computeTotalsFrom(sets, i, acc) ==
  IF i > Len(sets) THEN acc
  ELSE computeTotalsFrom(sets, i + 1, totalsAddSet(acc, sets[i]))

computeTotals(sets) == computeTotalsFrom(sets, 1, EmptyTotals)

\* A number of minutes is the rational <<num, den>>, den > 0.
defaultPaceSecondsPer100 == 90

\* Variant of hasSendOff: a send-off counts when it is truthy
hasSendOffTruthy(s) == IsSome(s.sendOffSeconds) /\ Get(s.sendOffSeconds) # 0

hasSendOff(s) == IsSome(s.sendOffSeconds)

RECURSIVE sendOffSecondsFrom(_, _)
sendOffSecondsFrom(setsWithSendOff, i) ==
  IF i > Len(setsWithSendOff) THEN 0
  ELSE setsWithSendOff[i].reps * Get(setsWithSendOff[i].sendOffSeconds)
       + sendOffSecondsFrom(setsWithSendOff, i + 1)

\* Variant of estimateWith: the pace estimate is given for every total
estimateAnyTotal(sets, setsWithSendOff, totalDistanceMeters) ==
  IF 2 * Len(setsWithSendOff) >= Len(sets)
  THEN Some(<<sendOffSecondsFrom(setsWithSendOff, 1), 60>>)
  ELSE Some(<<totalDistanceMeters * defaultPaceSecondsPer100, 100 * 60>>)

estimateWith(sets, setsWithSendOff, totalDistanceMeters) ==
  IF 2 * Len(setsWithSendOff) >= Len(sets)
  THEN Some(<<sendOffSecondsFrom(setsWithSendOff, 1), 60>>)
  ELSE IF totalDistanceMeters <= 0 THEN None
  ELSE Some(<<totalDistanceMeters * defaultPaceSecondsPer100, 100 * 60>>)

estimateDurationMinutes(sets, totalDistanceMeters) ==
  IF Len(sets) = 0 THEN None
  ELSE estimateWith(sets, SelectSeq(sets, hasSendOff), totalDistanceMeters)

\* The variance warning of interpretShorthand
Abs(x) == IF x < 0 THEN 0 - x ELSE x

Warning(message, estimated, planned, diffNum) ==
  [message |-> message, estimated |-> estimated, planned |-> planned,
   absDiff |-> <<Abs(diffNum), estimated[2]>>]

\* Variant of warningFor: a difference of exactly 10 minutes warns too
warningForInclusive(est, planned, diffNum) ==
  IF Abs(diffNum) >= 10 * est[2]
  THEN IF diffNum > 0
       THEN <<Warning("exceeds planned duration", est, planned, diffNum)>>
       ELSE <<Warning("is significantly shorter than planned duration", est, planned, diffNum)>>
  ELSE <<>>

warningFor(est, planned, diffNum) ==
  IF Abs(diffNum) > 10 * est[2]
  THEN IF diffNum > 0
       THEN <<Warning("exceeds planned duration", est, planned, diffNum)>>
       ELSE <<Warning("is significantly shorter than planned duration", est, planned, diffNum)>>
  ELSE <<>>

varianceDiff(est, planned) == warningFor(est, planned, est[1] - planned * est[2])

varianceWarnings(header, totals) ==
  IF IsSome(header.plannedDurationMinutes) /\ IsSome(totals.estimatedMinutes)
  THEN varianceDiff(Get(totals.estimatedMinutes), Get(header.plannedDurationMinutes))
  ELSE <<>>

\* ------------------------------------------------------------------------
\* Generator: the template catalog.  A character outside ASCII is written
\* as its \u escape.
\* ------------------------------------------------------------------------
TemplateLine(section, baseReps, distance, stroke, sendOff, intensity, comment) ==
  [section |-> section, baseReps |-> baseReps, distance |-> distance,
   stroke |-> stroke, sendOff |-> sendOff, intensity |-> intensity,
   comment |-> comment]

S_warmup == <<"w", "a", "r", "m", "u", "p">>
S_preset == <<"p", "r", "e", "s", "e", "t">>
S_cooldown == <<"c", "o", "o", "l", "d", "o", "w", "n">>
S_aerobic == <<"a", "e", "r", "o", "b", "i", "c">>
S_threshold == <<"t", "h", "r", "e", "s", "h", "o", "l", "d">>
S_sprint == <<"s", "p", "r", "i", "n", "t">>
S_technique == <<"t", "e", "c", "h", "n", "i", "q", "u", "e">>
S_novice == <<"n", "o", "v", "i", "c", "e">>
S_intermediate == <<"i", "n", "t", "e", "r", "m", "e", "d", "i", "a", "t", "e">>
S_elite == <<"e", "l", "i", "t", "e">>

AEROBIC_TEMPLATE == <<
  \* warmup: 1x300 choice easy
  TemplateLine(S_warmup, 1, 300, <<"c", "h", "o", "i", "c", "e">>,
    None,
    Some(<<"e", "a", "s", "y">>),
    Some(<<"E", "a", "s", "y", " ", "s", "w", "i", "m", ",", " ", "l", "o", "n", "g", " ", "s", "t", "r", "o", "k", "e", "s">>)),
  \* warmup: 4x50 drill @1:00 aerobic
  TemplateLine(S_warmup, 4, 50, <<"d", "r", "i", "l", "l">>,
    Some(<<"1", ":", "0", "0">>),
    Some(<<"a", "e", "r", "o", "b", "i", "c">>),
    Some(<<"T", "e", "c", "h", "n", "i", "q", "u", "e", " ", "f", "o", "c", "u", "s", ",", " ", "1", " ", "s", "t", "r", "o", "k", "e", " ", "p", "e", "r", " ", "5", "0", " ", "i", "f", " ", "y", "o", "u", " ", "w", "a", "n", "t">>)),
  \* warmup: 4x25 FR @0:30 build
  TemplateLine(S_warmup, 4, 25, <<"F", "R">>,
    Some(<<"0", ":", "3", "0">>),
    Some(<<"b", "u", "i", "l", "d">>),
    Some(<<"B", "u", "i", "l", "d", " ", "1", "\\u2013", "4", ",", " ", "f", "i", "n", "i", "s", "h", " ", "n", "e", "a", "r", " ", "r", "a", "c", "e", " ", "t", "e", "m", "p", "o">>)),
  \* preset: 6x50 kick @1:00 moderate
  TemplateLine(S_preset, 6, 50, <<"k", "i", "c", "k">>,
    Some(<<"1", ":", "0", "0">>),
    Some(<<"m", "o", "d", "e", "r", "a", "t", "e">>),
    Some(<<"K", "i", "c", "k", " ", "w", "i", "t", "h", " ", "b", "o", "a", "r", "d", " ", "o", "r", " ", "s", "t", "r", "e", "a", "m", "l", "i", "n", "e", ";", " ", "k", "e", "e", "p", " ", "i", "t", " ", "m", "o", "v", "i", "n", "g">>)),
  \* preset: 4x50 pull @1:00 aerobic
  TemplateLine(S_preset, 4, 50, <<"p", "u", "l", "l">>,
    Some(<<"1", ":", "0", "0">>),
    Some(<<"a", "e", "r", "o", "b", "i", "c">>),
    Some(<<"P", "u", "l", "l", " ", "w", "i", "t", "h", " ", "b", "u", "o", "y", ",", " ", "f", "o", "c", "u", "s", " ", "o", "n", " ", "d", "i", "s", "t", "a", "n", "c", "e", " ", "p", "e", "r", " ", "s", "t", "r", "o", "k", "e">>)),
  \* main: 6x100 FR @1:40 aerobic
  TemplateLine(S_main, 6, 100, <<"F", "R">>,
    Some(<<"1", ":", "4", "0">>),
    Some(<<"a", "e", "r", "o", "b", "i", "c">>),
    Some(<<"S", "t", "e", "a", "d", "y", " ", "a", "e", "r", "o", "b", "i", "c", ",", " ", "h", "o", "l", "d", " ", "c", "o", "n", "s", "i", "s", "t", "e", "n", "t", " ", "p", "a", "c", "e">>)),
  \* main: 4x200 FR @3:30 moderate
  TemplateLine(S_main, 4, 200, <<"F", "R">>,
    Some(<<"3", ":", "3", "0">>),
    Some(<<"m", "o", "d", "e", "r", "a", "t", "e">>),
    Some(<<"L", "o", "n", "g", "e", "r", " ", "r", "e", "p", "e", "a", "t", "s", ",", " ", "s", "m", "o", "o", "t", "h", " ", "&", " ", "c", "o", "n", "t", "r", "o", "l", "l", "e", "d">>)),
  \* cooldown: 1x200 choice easy
  TemplateLine(S_cooldown, 1, 200, <<"c", "h", "o", "i", "c", "e">>,
    None,
    Some(<<"e", "a", "s", "y">>),
    Some(<<"E", "a", "s", "y", " ", "s", "w", "i", "m", ",", " ", "f", "l", "u", "s", "h", " ", "o", "u", "t">>)),
  \* cooldown: 4x25 choice easy
  TemplateLine(S_cooldown, 4, 25, <<"c", "h", "o", "i", "c", "e">>,
    None,
    Some(<<"e", "a", "s", "y">>),
    None) >>

THRESHOLD_TEMPLATE == <<
  \* warmup: 1x300 choice easy
  TemplateLine(S_warmup, 1, 300, <<"c", "h", "o", "i", "c", "e">>,
    None,
    Some(<<"e", "a", "s", "y">>),
    Some(<<"E", "a", "s", "y", " ", "s", "w", "i", "m", ",", " ", "l", "o", "o", "s", "e", "n", " ", "u", "p">>)),
  \* warmup: 4x50 drill @1:00 aerobic
  TemplateLine(S_warmup, 4, 50, <<"d", "r", "i", "l", "l">>,
    Some(<<"1", ":", "0", "0">>),
    Some(<<"a", "e", "r", "o", "b", "i", "c">>),
    Some(<<"T", "e", "c", "h", "n", "i", "q", "u", "e", ",", " ", "l", "o", "n", "g", " ", "s", "t", "r", "o", "k", "e", "s">>)),
  \* warmup: 4x25 FR @0:30 build
  TemplateLine(S_warmup, 4, 25, <<"F", "R">>,
    Some(<<"0", ":", "3", "0">>),
    Some(<<"b", "u", "i", "l", "d">>),
    Some(<<"B", "u", "i", "l", "d", " ", "1", "\\u2013", "4", " ", "t", "o", " ", "s", "t", "r", "o", "n", "g">>)),
  \* warmup: 4x25 kick @0:40 moderate
  TemplateLine(S_warmup, 4, 25, <<"k", "i", "c", "k">>,
    Some(<<"0", ":", "4", "0">>),
    Some(<<"m", "o", "d", "e", "r", "a", "t", "e">>),
    Some(<<"S", "h", "o", "r", "t", " ", "k", "i", "c", "k", " ", "t", "o", " ", "w", "a", "k", "e", " ", "l", "e", "g", "s">>)),
  \* preset: 6x50 FR @0:55 moderate
  TemplateLine(S_preset, 6, 50, <<"F", "R">>,
    Some(<<"0", ":", "5", "5">>),
    Some(<<"m", "o", "d", "e", "r", "a", "t", "e">>),
    Some(<<"P", "r", "e", "p", " ", "f", "o", "r", " ", "t", "h", "r", "e", "s", "h", "o", "l", "d", " ", "p", "a", "c", "e", ",", " ", "f", "o", "c", "u", "s", " ", "o", "n", " ", "r", "h", "y", "t", "h", "m">>)),
  \* preset: 4x50 FR @1:00 build
  TemplateLine(S_preset, 4, 50, <<"F", "R">>,
    Some(<<"1", ":", "0", "0">>),
    Some(<<"b", "u", "i", "l", "d">>),
    Some(<<"D", "e", "s", "c", "e", "n", "d", " ", "o", "r", " ", "b", "u", "i", "l", "d", " ", "w", "i", "t", "h", "i", "n", " ", "e", "a", "c", "h", " ", "5", "0">>)),
  \* preset: 1x100 choice easy
  TemplateLine(S_preset, 1, 100, <<"c", "h", "o", "i", "c", "e">>,
    None,
    Some(<<"e", "a", "s", "y">>),
    Some(<<"E", "a", "s", "y", " ", "b", "e", "f", "o", "r", "e", " ", "m", "a", "i", "n", " ", "s", "e", "t">>)),
  \* main: 8x100 FR @1:30 thresh
  TemplateLine(S_main, 8, 100, <<"F", "R">>,
    Some(<<"1", ":", "3", "0">>),
    Some(<<"t", "h", "r", "e", "s", "h">>),
    Some(<<"B", "l", "o", "c", "k", " ", "1", " ", "\\u2013", " ", "s", "t", "r", "a", "i", "g", "h", "t", " ", "t", "h", "r", "e", "s", "h", "o", "l", "d", " ", "1", "0", "0", "s">>)),
  \* main: 4x50 FR @0:50 fast
  TemplateLine(S_main, 4, 50, <<"F", "R">>,
    Some(<<"0", ":", "5", "0">>),
    Some(<<"f", "a", "s", "t">>),
    Some(<<"F", "a", "s", "t", " ", "5", "0", "s", " ", "t", "o", " ", "s", "h", "a", "r", "p", "e", "n", " ", "s", "p", "e", "e", "d">>)),
  \* main: 4x100 FR @1:35 thresh
  TemplateLine(S_main, 4, 100, <<"F", "R">>,
    Some(<<"1", ":", "3", "5">>),
    Some(<<"t", "h", "r", "e", "s", "h">>),
    Some(<<"B", "l", "o", "c", "k", " ", "2", " ", "\\u2013", " ", "h", "o", "l", "d", " ", "p", "a", "c", "e", " ", "u", "n", "d", "e", "r", " ", "f", "a", "t", "i", "g", "u", "e">>)),
  \* main: 4x50 choice @1:00 easy
  TemplateLine(S_main, 4, 50, <<"c", "h", "o", "i", "c", "e">>,
    Some(<<"1", ":", "0", "0">>),
    Some(<<"e", "a", "s", "y">>),
    Some(<<"E", "a", "s", "y", " ", "a", "c", "t", "i", "v", "e", " ", "r", "e", "c", "o", "v", "e", "r", "y">>)),
  \* cooldown: 1x200 choice easy
  TemplateLine(S_cooldown, 1, 200, <<"c", "h", "o", "i", "c", "e">>,
    None,
    Some(<<"e", "a", "s", "y">>),
    Some(<<"L", "o", "n", "g", " ", "e", "a", "s", "y", " ", "s", "w", "i", "m">>)),
  \* cooldown: 4x25 choice easy
  TemplateLine(S_cooldown, 4, 25, <<"c", "h", "o", "i", "c", "e">>,
    None,
    Some(<<"e", "a", "s", "y">>),
    None) >>

SPRINT_TEMPLATE == <<
  \* warmup: 1x300 choice easy
  TemplateLine(S_warmup, 1, 300, <<"c", "h", "o", "i", "c", "e">>,
    None,
    Some(<<"e", "a", "s", "y">>),
    Some(<<"E", "a", "s", "y", " ", "s", "w", "i", "m", ",", " ", "m", "i", "x", " ", "s", "t", "r", "o", "k", "e", "s">>)),
  \* warmup: 4x50 drill @1:00 aerobic
  TemplateLine(S_warmup, 4, 50, <<"d", "r", "i", "l", "l">>,
    Some(<<"1", ":", "0", "0">>),
    Some(<<"a", "e", "r", "o", "b", "i", "c">>),
    Some(<<"D", "r", "i", "l", "l", " ", "f", "o", "c", "u", "s", " ", "\\u2013", " ", "s", "t", "r", "e", "a", "m", "l", "i", "n", "e", ",", " ", "c", "a", "t", "c", "h", ",", " ", "f", "i", "n", "i", "s", "h">>)),
  \* warmup: 4x25 FR @0:30 build
  TemplateLine(S_warmup, 4, 25, <<"F", "R">>,
    Some(<<"0", ":", "3", "0">>),
    Some(<<"b", "u", "i", "l", "d">>),
    Some(<<"B", "u", "i", "l", "d", " ", "1", "\\u2013", "4", ",", " ", "f", "a", "s", "t", "e", "r", " ", "i", "n", "t", "o", " ", "t", "h", "e", " ", "w", "a", "l", "l">>)),
  \* preset: 8x25 kick @0:40 moderate
  TemplateLine(S_preset, 8, 25, <<"k", "i", "c", "k">>,
    Some(<<"0", ":", "4", "0">>),
    Some(<<"m", "o", "d", "e", "r", "a", "t", "e">>),
    Some(<<"K", "i", "c", "k", " ", "w", "i", "t", "h", " ", "h", "i", "g", "h", " ", "t", "e", "m", "p", "o", ",", " ", "g", "o", "o", "d", " ", "s", "t", "r", "e", "a", "m", "l", "i", "n", "e">>)),
  \* preset: 4x50 FR @0:55 build
  TemplateLine(S_preset, 4, 50, <<"F", "R">>,
    Some(<<"0", ":", "5", "5">>),
    Some(<<"b", "u", "i", "l", "d">>),
    Some(<<"B", "u", "i", "l", "d", " ", "1", "\\u2013", "4", ",", " ", "l", "a", "s", "t", " ", "1", "5", "m", " ", "s", "t", "r", "o", "n", "g">>)),
  \* main: 12x25 FR @0:40 sprint
  TemplateLine(S_main, 12, 25, <<"F", "R">>,
    Some(<<"0", ":", "4", "0">>),
    Some(<<"s", "p", "r", "i", "n", "t">>),
    Some(<<"A", "l", "l", "-", "o", "u", "t", " ", "2", "5", "s", ",", " ", "f", "o", "c", "u", "s", " ", "o", "n", " ", "s", "t", "a", "r", "t", " ", "+", " ", "f", "i", "r", "s", "t", " ", "1", "0", "m">>)),
  \* main: 12x25 FR @0:50 easy
  TemplateLine(S_main, 12, 25, <<"F", "R">>,
    Some(<<"0", ":", "5", "0">>),
    Some(<<"e", "a", "s", "y">>),
    Some(<<"E", "q", "u", "a", "l", " ", "e", "a", "s", "y", " ", "s", "w", "i", "m", "m", "i", "n", "g", " ", "f", "o", "r", " ", "a", "c", "t", "i", "v", "e", " ", "r", "e", "c", "o", "v", "e", "r", "y">>)),
  \* main: 8x50 kick @1:10 fast
  TemplateLine(S_main, 8, 50, <<"k", "i", "c", "k">>,
    Some(<<"1", ":", "1", "0">>),
    Some(<<"f", "a", "s", "t">>),
    Some(<<"F", "a", "s", "t", " ", "k", "i", "c", "k", " ", "5", "0", "s", " ", "\\u2013", " ", "w", "a", "l", "l", "s", " ", "+", " ", "u", "n", "d", "e", "r", "w", "a", "t", "e", "r", "s">>)),
  \* main: 4x50 FR @1:00 sprint
  TemplateLine(S_main, 4, 50, <<"F", "R">>,
    Some(<<"1", ":", "0", "0">>),
    Some(<<"s", "p", "r", "i", "n", "t">>),
    Some(<<"5", "0", "s", " ", "f", "r", "o", "m", " ", "a", " ", "p", "u", "s", "h", ",", " ", "r", "a", "c", "e", " ", "e", "f", "f", "o", "r", "t">>)),
  \* cooldown: 1x200 choice easy
  TemplateLine(S_cooldown, 1, 200, <<"c", "h", "o", "i", "c", "e">>,
    None,
    Some(<<"e", "a", "s", "y">>),
    Some(<<"E", "a", "s", "y", " ", "c", "h", "o", "i", "c", "e", ",", " ", "r", "e", "l", "a", "x", " ", "t", "h", "e", " ", "s", "t", "r", "o", "k", "e">>)),
  \* cooldown: 8x25 choice easy
  TemplateLine(S_cooldown, 8, 25, <<"c", "h", "o", "i", "c", "e">>,
    None,
    Some(<<"e", "a", "s", "y">>),
    None) >>

TECHNIQUE_TEMPLATE == <<
  \* warmup: 1x300 choice easy
  TemplateLine(S_warmup, 1, 300, <<"c", "h", "o", "i", "c", "e">>,
    None,
    Some(<<"e", "a", "s", "y">>),
    Some(<<"E", "a", "s", "y", " ", "s", "w", "i", "m", ",", " ", "f", "o", "c", "u", "s", " ", "o", "n", " ", "b", "o", "d", "y", " ", "l", "i", "n", "e">>)),
  \* warmup: 4x50 drill @1:05 aerobic
  TemplateLine(S_warmup, 4, 50, <<"d", "r", "i", "l", "l">>,
    Some(<<"1", ":", "0", "5">>),
    Some(<<"a", "e", "r", "o", "b", "i", "c">>),
    Some(<<"S", "i", "m", "p", "l", "e", " ", "d", "r", "i", "l", "l", "s", ":", " ", "c", "a", "t", "c", "h", "-", "u", "p", ",", " ", "f", "i", "n", "g", "e", "r", "t", "i", "p", " ", "d", "r", "a", "g", ",", " ", "e", "t", "c", ".">>)),
  \* warmup: 4x25 FR @0:30 build
  TemplateLine(S_warmup, 4, 25, <<"F", "R">>,
    Some(<<"0", ":", "3", "0">>),
    Some(<<"b", "u", "i", "l", "d">>),
    Some(<<"B", "u", "i", "l", "d", " ", "1", "\\u2013", "4", ",", " ", "h", "o", "l", "d", " ", "g", "o", "o", "d", " ", "f", "o", "r", "m">>)),
  \* preset: 4x50 drill @1:10 aerobic
  TemplateLine(S_preset, 4, 50, <<"d", "r", "i", "l", "l">>,
    Some(<<"1", ":", "1", "0">>),
    Some(<<"a", "e", "r", "o", "b", "i", "c">>),
    Some(<<"D", "r", "i", "l", "l", " ", "o", "n", "l", "y", ",", " ", "n", "o", " ", "r", "u", "s", "h">>)),
  \* preset: 4x50 kick @1:10 moderate
  TemplateLine(S_preset, 4, 50, <<"k", "i", "c", "k">>,
    Some(<<"1", ":", "1", "0">>),
    Some(<<"m", "o", "d", "e", "r", "a", "t", "e">>),
    Some(<<"K", "i", "c", "k", " ", "o", "n", " ", "s", "i", "d", "e", " ", "o", "r", " ", "o", "n", " ", "b", "a", "c", "k", ",", " ", "s", "t", "a", "b", "l", "e", " ", "h", "e", "a", "d">>)),
  \* preset: 4x50 drill @1:10 aerobic
  TemplateLine(S_preset, 4, 50, <<"d", "r", "i", "l", "l">>,
    Some(<<"1", ":", "1", "0">>),
    Some(<<"a", "e", "r", "o", "b", "i", "c">>),
    Some(<<"S", "e", "c", "o", "n", "d", " ", "d", "r", "i", "l", "l", " ", "f", "o", "c", "u", "s", " ", "\\u2013", " ", "m", "a", "y", "b", "e", " ", "b", "r", "e", "a", "t", "h", "i", "n", "g", " ", "o", "r", " ", "r", "o", "t", "a", "t", "i", "o", "n">>)),
  \* preset: 8x25 drill @0:45 aerobic
  TemplateLine(S_preset, 8, 25, <<"d", "r", "i", "l", "l">>,
    Some(<<"0", ":", "4", "5">>),
    Some(<<"a", "e", "r", "o", "b", "i", "c">>),
    Some(<<"S", "h", "o", "r", "t", " ", "d", "r", "i", "l", "l", " ", "2", "5", "s", ",", " ", "v", "e", "r", "y", " ", "p", "r", "e", "c", "i", "s", "e">>)),
  \* main: 8x100 FR @2:00 aerobic
  TemplateLine(S_main, 8, 100, <<"F", "R">>,
    Some(<<"2", ":", "0", "0">>),
    Some(<<"a", "e", "r", "o", "b", "i", "c">>),
    Some(<<"1", "0", "0", "s", ",", " ", "k", "e", "e", "p", " ", "s", "t", "r", "o", "k", "e", " ", "c", "o", "u", "n", "t", " ", "l", "o", "w", ",", " ", "g", "o", "o", "d", " ", "f", "o", "r", "m">>)),
  \* main: 4x50 drill @1:00 aerobic
  TemplateLine(S_main, 4, 50, <<"d", "r", "i", "l", "l">>,
    Some(<<"1", ":", "0", "0">>),
    Some(<<"a", "e", "r", "o", "b", "i", "c">>),
    Some(<<"F", "i", "n", "i", "s", "h", " ", "w", "i", "t", "h", " ", "p", "u", "r", "e", " ", "d", "r", "i", "l", "l", "s">>)),
  \* cooldown: 1x200 choice easy
  TemplateLine(S_cooldown, 1, 200, <<"c", "h", "o", "i", "c", "e">>,
    None,
    Some(<<"e", "a", "s", "y">>),
    Some(<<"E", "a", "s", "y", " ", "s", "w", "i", "m", ",", " ", "f", "l", "u", "s", "h", " ", "e", "v", "e", "r", "y", "t", "h", "i", "n", "g", " ", "o", "u", "t">>)),
  \* cooldown: 8x25 choice easy
  TemplateLine(S_cooldown, 8, 25, <<"c", "h", "o", "i", "c", "e">>,
    None,
    Some(<<"e", "a", "s", "y">>),
    None) >>

TEMPLATES(focus) ==
  IF focus = S_aerobic THEN AEROBIC_TEMPLATE
  ELSE IF focus = S_threshold THEN THRESHOLD_TEMPLATE
  ELSE IF focus = S_sprint THEN SPRINT_TEMPLATE
  ELSE TECHNIQUE_TEMPLATE

\* ------------------------------------------------------------------------
\* Generator
\* ------------------------------------------------------------------------
normalizeToPool(distance, pool) ==
  IF distance <= 0 THEN pool
  ELSE IF distance % pool = 0 THEN distance
  ELSE distance + (pool - (distance % pool))

RECURSIVE computeTemplateDistanceFrom(_, _, _)
computeTemplateDistanceFrom(template, pool, i) ==
  IF i > Len(template) THEN 0
  ELSE template[i].baseReps * normalizeToPool(template[i].distance, pool)
       + computeTemplateDistanceFrom(template, pool, i + 1)

computeTemplateDistance(template, pool) == computeTemplateDistanceFrom(template, pool, 1)

\* Variant of clamp: only the lower limit is applied
clampLow(value, min, max) == IF value < min THEN min ELSE value

clamp(value, min, max) ==
  IF (IF max < value THEN max ELSE value) < min THEN min
  ELSE IF max < value THEN max ELSE value

MinTarget == 1500
MaxTarget == 6000

\* Variant of profileTarget: the product is rounded down
profileTargetFloor(profile, baseTotal) ==
  IF profile = S_novice THEN (baseTotal * 75) \div 100
  ELSE IF profile = S_elite THEN (baseTotal * 125) \div 100
  ELSE baseTotal

\* Math.round(baseTotal * profileFactor), the factors being 0.75, 1.25, 1.0
profileTarget(profile, baseTotal) ==
  IF profile = S_novice THEN MathRound(baseTotal * 75, 100)
  ELSE IF profile = S_elite THEN MathRound(baseTotal * 125, 100)
  ELSE MathRound(baseTotal * 100, 100)

chooseTargetDistance(goal, baseTotal) ==
  clamp(IF ~IsSome(goal.targetDistanceMeters) \/ Get(goal.targetDistanceMeters) <= 0
        THEN profileTarget(goal.profile, baseTotal)
        ELSE Get(goal.targetDistanceMeters),
        MinTarget, MaxTarget)

\* The reps of one template line: Math.round(baseReps * scale), at least
\* 1, at most maxReps = 3 * baseReps, with scale = targetTotal / baseTotal
limitReps(scaledReps, maxReps) ==
  IF (IF scaledReps < 1 THEN 1 ELSE scaledReps) > maxReps THEN maxReps
  ELSE IF scaledReps < 1 THEN 1 ELSE scaledReps

\* Variant of scaleReps: the scaled reps are rounded down
scaleRepsFloor(line, targetTotal, baseTotal) ==
  limitReps((line.baseReps * targetTotal) \div baseTotal, line.baseReps * 3)

scaleReps(line, targetTotal, baseTotal) ==
  limitReps(MathRound(line.baseReps * targetTotal, baseTotal), line.baseReps * 3)

\* A string is truthy when it is given and not empty
truthy(o) == IsSome(o) /\ Len(Get(o)) > 0

\* Variant of buildSetLine: the intensity follows without a space
buildSetLineJoined(reps, distance, stroke, sendOff, intensity) ==
  (IF reps > 1 THEN toString(reps) \o <<"x">> ELSE <<>>)
  \o toString(distance) \o <<" ">> \o stroke
  \o (IF truthy(sendOff) THEN <<" ", "@">> \o Get(sendOff) ELSE <<>>)
  \o (IF truthy(intensity) THEN Get(intensity) ELSE <<>>)

buildSetLine(reps, distance, stroke, sendOff, intensity) ==
  (IF reps > 1 THEN toString(reps) \o <<"x">> ELSE <<>>)
  \o toString(distance) \o <<" ">> \o stroke
  \o (IF truthy(sendOff) THEN <<" ", "@">> \o Get(sendOff) ELSE <<>>)
  \o (IF truthy(intensity) THEN <<" ">> \o Get(intensity) ELSE <<>>)

\* The lines one template line adds to its section
templateLineText(line, pool, targetTotal, baseTotal) ==
  (IF truthy(line.comment) THEN << <<"#", " ">> \o Get(line.comment) >> ELSE <<>>)
  \o << buildSetLine(scaleReps(line, targetTotal, baseTotal),
                     normalizeToPool(line.distance, pool),
                     line.stroke, line.sendOff, line.intensity) >>

\* sections[sectionName] after the loop over the template
RECURSIVE sectionContent(_, _, _, _, _, _)
sectionContent(template, i, sectionName, pool, targetTotal, baseTotal) ==
  IF i > Len(template) THEN <<>>
  ELSE (IF template[i].section = sectionName
        THEN templateLineText(template[i], pool, targetTotal, baseTotal)
        ELSE <<>>)
       \o sectionContent(template, i + 1, sectionName, pool, targetTotal, baseTotal)

renderSection(sectionName, content) ==
  IF Len(content) = 0 THEN <<>>
  ELSE << sectionName \o <<":">> >>
       \o [i \in 1..Len(content) |-> <<" ", " ">> \o content[i]]
       \o << <<>> >>

headerLines(goal) ==
  << S_pool \o <<" ">> \o toString(goal.poolLengthMeters) \o <<"m">> >>
  \o (IF IsSome(goal.targetDurationMinutes) /\ Get(goal.targetDurationMinutes) # 0
      THEN << S_duration \o <<" ">> \o toString(Get(goal.targetDurationMinutes))
              \o <<"m", "i", "n">> >>
      ELSE <<>>)
  \o (IF truthy(goal.title) THEN << S_title \o <<" ">> \o Get(goal.title) >> ELSE <<>>)
  \o << S_focus \o <<" ">> \o goal.focus >>
  \o << S_profile \o <<" ">> \o goal.profile >>
  \o << <<>> >>

RECURSIVE stripTrailingBlank(_)
stripTrailingBlank(ls) ==
  IF Len(ls) > 0 /\ Len(trim(ls[Len(ls)])) = 0
  THEN stripTrailingBlank(SubSeq(ls, 1, Len(ls) - 1))
  ELSE ls

generateLines(goal, template, pool, targetTotal, baseTotal) ==
  join(stripTrailingBlank(
         headerLines(goal)
         \o renderSection(S_warmup,
              sectionContent(template, 1, S_warmup, pool, targetTotal, baseTotal))
         \o renderSection(S_preset,
              sectionContent(template, 1, S_preset, pool, targetTotal, baseTotal))
         \o renderSection(S_main,
              sectionContent(template, 1, S_main, pool, targetTotal, baseTotal))
         \o renderSection(S_cooldown,
              sectionContent(template, 1, S_cooldown, pool, targetTotal, baseTotal))),
       <<"\n">>)

generateWithBase(goal, template, baseTotal) ==
  generateLines(goal, template, goal.poolLengthMeters,
                chooseTargetDistance(goal, baseTotal), baseTotal)

generateWithTemplate(goal, template) ==
  generateWithBase(goal, template,
                   computeTemplateDistance(template, goal.poolLengthMeters))

generateWorkoutDSL(goal) == generateWithTemplate(goal, TEMPLATES(goal.focus))

\* ------------------------------------------------------------------------
\* State
\* ------------------------------------------------------------------------
VARIABLES
  goal,            \* the constraints of the generate call, None for a typed document
  text,            \* the argument of interpretShorthand
  lines,           \* text.split(/\r?\n/)
  index,           \* the loop variable of interpretShorthand
  header,          \* accumulator: the header
  sets,            \* accumulator: the sets
  errors,          \* accumulator: the parse errors
  warnings,        \* accumulator: the warnings
  currentSection,  \* the active section
  totals,          \* the result of computeTotals, with estimatedMinutes
  pc,              \* "idle", "loop" or "done"
  timeText,        \* time codec: the text given to parseTimeToSeconds
  timeSeconds,     \* time codec: the seconds parsed or given
  timeFormatted,   \* time codec: the result of formatSecondsAsTime
  tpc,             \* time codec: "idle", "parsed" or "formatted"
  genGoal,         \* generator: the constraints of the call
  genBase,         \* generator: baseTotal
  genTarget,       \* generator: targetTotal
  genLines,        \* generator: the set line built for each template line
  genText,         \* generator: the text returned
  gpc,             \* generator: "idle", "chosen" or "rendered"
  calls,           \* concurrent invocations: the local state of each
  catalog,         \* concurrent invocations: the module-level TEMPLATES
  workouts,        \* workouts table: the row of each id
  lastId,          \* workouts table: the last id the table has given out
  requests,        \* workouts routes: the request each client has in flight
  browser,         \* playwright pool: the module-level browser
  launched,        \* playwright pool: the browsers chromium.launch has started
  contexts,        \* playwright pool: the browser contexts that are open
  opened,          \* playwright pool: the number of contexts opened so far
  pdfCalls         \* playwright pool: the initPlaywright and htmlToPdf calls in flight

vars == <<goal, text, lines, index, header, sets, errors, warnings,
          currentSection, totals, pc, timeText, timeSeconds, timeFormatted, tpc,
          genGoal, genBase, genTarget, genLines, genText, gpc, calls, catalog,
          workouts, lastId, requests, browser, launched, contexts, opened, pdfCalls>>
interpVars == <<goal, text, lines, index, header, sets, errors, warnings,
                currentSection, totals, pc>>
timeVars == <<timeText, timeSeconds, timeFormatted, tpc>>
genVars == <<genGoal, genBase, genTarget, genLines, genText, gpc>>
callVars == <<calls, catalog>>
storeVars == <<workouts, lastId, requests>>
pdfVars == <<browser, launched, contexts, opened, pdfCalls>>
serviceVars == <<storeVars, pdfVars>>

\* ------------------------------------------------------------------------
\* Inputs
\* ------------------------------------------------------------------------
MaxLines == 3

\* The lines a typed document is made of
LineBank == {
  \*  Warm Up:
  <<" ", "W", "a", "r", "m", " ", "U", "p", ":">>,
  \* duration 0
  <<"d", "u", "r", "a", "t", "i", "o", "n", " ", "0">>,
  \* duration 30min
  <<"d", "u", "r", "a", "t", "i", "o", "n", " ", "3", "0", "m", "i", "n">>,
  \* duration
  <<"d", "u", "r", "a", "t", "i", "o", "n">>,
  \* 10x100 FR @1:00 thresh
  <<"1", "0", "x", "1", "0", "0", " ", "F", "R", " ", "@", "1", ":", "0", "0", " ", "t", "h", "r", "e", "s", "h">>,
  \* 4x50 kick  @0\r
  <<"4", "x", "5", "0", " ", "k", "i", "c", "k", " ", " ", "@", "0", "\r">>,
  \* 0x0 FR @1:65
  <<"0", "x", "0", " ", "F", "R", " ", "@", "1", ":", "6", "5">>,
  \* this is not a set
  <<"t", "h", "i", "s", " ", "i", "s", " ", "n", "o", "t", " ", "a", " ", "s", "e", "t">>,
  \* 100 FR constructor
  <<"1", "0", "0", " ", "F", "R", " ", "c", "o", "n", "s", "t", "r", "u", "c", "t", "o", "r">> }

\* A typed document: n lines of the bank joined by a line feed
Documents(n) == {join(ls, <<"\n">>) : ls \in [1..n -> LineBank]}

\* The constraints the generate route lets through
Pools == {25, 50}
Focuses == {S_aerobic, S_threshold, S_sprint, S_technique}
Profiles == {S_novice, S_intermediate, S_elite}
TargetDistances == {None, Some(1000), Some(9000)}
TargetDurations == {None, Some(60)}
Titles ==
  {None,
   \* AM
   Some(<<"A", "M">>),
   \* Kick:
   Some(<<"K", "i", "c", "k", ":">>),
   \* A\nB
   Some(<<"A", "\n", "B">>),
   \* AM\n100 FR
   Some(<<"A", "M", "\n", "1", "0", "0", " ", "F", "R">>)}

Goals ==
  [poolLengthMeters : Pools, targetDistanceMeters : TargetDistances,
   targetDurationMinutes : TargetDurations, focus : Focuses,
   profile : Profiles, title : Titles]

\* The concurrent invocations, and the state of one before it is called
Procs == {1, 2}
IdleCall ==
  [kind |-> "none", pc |-> "idle", goal |-> None, text |-> <<>>, lines |-> <<>>,
   index |-> 0, header |-> EmptyHeader, sets |-> <<>>, errors |-> <<>>,
   warnings |-> <<>>, currentSection |-> S_main, totals |-> EmptyTotals,
   baseTotal |-> 0, targetTotal |-> 0]

\* a client without a request, and a caller without a call
IdleRequest == [kind |-> "none", pc |-> "idle", id |-> 0, shorthand |-> None,
                totalDistanceMeters |-> 0, result |-> None, status |-> 0]
IdlePdfCall == [kind |-> "none", pc |-> "idle", context |-> None, outcome |-> "none"]

\* ------------------------------------------------------------------------
\* interpretShorthand as a state machine: one step per line of the loop
\* ------------------------------------------------------------------------
Init ==
  /\ goal = None /\ text = <<>> /\ lines = <<>> /\ index = 0
  /\ header = EmptyHeader /\ sets = <<>> /\ errors = <<>> /\ warnings = <<>>
  /\ currentSection = S_main /\ totals = EmptyTotals /\ pc = "idle"
  /\ timeText = <<>> /\ timeSeconds = None /\ timeFormatted = None /\ tpc = "idle"
  /\ genGoal = None /\ genBase = 0 /\ genTarget = 0 /\ genLines = <<>>
  /\ genText = <<>> /\ gpc = "idle"
  /\ calls = [p \in Procs |-> IdleCall]
  /\ catalog = [f \in Focuses |-> TEMPLATES(f)]
  /\ workouts = <<>> /\ lastId = 0 /\ requests = [p \in Procs |-> IdleRequest]
  /\ browser = None /\ launched = {} /\ contexts = {} /\ opened = 0
  /\ pdfCalls = [p \in Procs |-> IdlePdfCall]

\* interpretShorthand, lines 15-22: the accumulators are created and the
\* text is split
enter(t) ==
  /\ text' = t
  /\ lines' = splitLines(t)
  /\ index' = 0
  /\ header' = EmptyHeader /\ sets' = <<>> /\ errors' = <<>> /\ warnings' = <<>>
  /\ currentSection' = S_main
  /\ totals' = EmptyTotals
  /\ pc' = "loop"

\* interpretShorthand is called with a typed document
Interpret ==
  /\ pc = "idle"
  /\ \E n \in 1..MaxLines : \E doc \in Documents(n) : enter(doc)
  /\ goal' = None
  /\ UNCHANGED <<timeVars, genVars, callVars, serviceVars>>

\* The generate route: generateWorkoutDSL, then interpretShorthand of its
\* result
Generate ==
  /\ pc = "idle"
  /\ \E g \in Goals : /\ goal' = Some(g)
                      /\ enter(generateWorkoutDSL(g))
  /\ UNCHANGED <<timeVars, genVars, callVars, serviceVars>>

\* Variant of lineKind: the colon is tested before the comment mark
lineKindColonFirst(t) ==
  IF Len(t) = 0 THEN "skip"
  ELSE IF endsWith(t, <<":">>) THEN "section"
  ELSE IF startsWith(t, <<"#">>) THEN "skip"
  ELSE IF handleHeaderLine(t, EmptyHeader, 0, <<>>).handled THEN "header"
  ELSE "set"

\* The branch of the loop body a trimmed line takes
lineKind(t) ==
  IF Len(t) = 0 \/ startsWith(t, <<"#">>) THEN "skip"
  ELSE IF endsWith(t, <<":">>) THEN "section"
  ELSE IF handleHeaderLine(t, EmptyHeader, 0, <<>>).handled THEN "header"
  ELSE "set"

inLoop(kind) ==
  /\ pc = "loop" /\ index < Len(lines)
  /\ lineKind(trim(lines[index + 1])) = kind

\* Lines 29-31: a blank line or a comment
SkipLine ==
  /\ inLoop("skip")
  /\ index' = index + 1
  /\ UNCHANGED <<goal, text, lines, header, sets, errors, warnings,
                 currentSection, totals, pc>>
  /\ UNCHANGED <<timeVars, genVars, callVars, serviceVars>>

\* Lines 33-44: a section header
sectionStep(sectionName, lineNumber) ==
  IF Len(sectionName) = 0
  THEN /\ errors' = Append(errors, ParseError(lineNumber, "Empty section name.", <<>>))
       /\ UNCHANGED currentSection
  ELSE /\ currentSection' = sectionName
       /\ UNCHANGED errors

sectionNameOf(trimmed) == toLowerCase(trim(SubSeq(trimmed, 1, Len(trimmed) - 1)))

SectionLine ==
  /\ inLoop("section")
  /\ sectionStep(sectionNameOf(trim(lines[index + 1])), index + 1)
  /\ index' = index + 1
  /\ UNCHANGED <<goal, text, lines, header, sets, warnings, totals, pc>>
  /\ UNCHANGED <<timeVars, genVars, callVars, serviceVars>>

\* Lines 46-48: a header directive
headerStep(r) == header' = r.header /\ errors' = r.errors

HeaderLine ==
  /\ inLoop("header")
  /\ headerStep(handleHeaderLine(trim(lines[index + 1]), header, index + 1, errors))
  /\ index' = index + 1
  /\ UNCHANGED <<goal, text, lines, sets, warnings, currentSection, totals, pc>>
  /\ UNCHANGED <<timeVars, genVars, callVars, serviceVars>>

\* Lines 50-57: anything else goes to the set grammar
\* Variant of SetInterval: the line number is the index of the loop, which
\* counts from 0
SetIntervalZeroBased(set, rawLine, lineNumber) ==
  [section |-> set.section, reps |-> set.reps,
   distanceMeters |-> set.distanceMeters, stroke |-> set.stroke,
   sendOffSeconds |-> set.sendOffSeconds, intensity |-> set.intensity,
   raw |-> rawLine, lineNumber |-> lineNumber - 1]

SetInterval(set, rawLine, lineNumber) ==
  [section |-> set.section, reps |-> set.reps,
   distanceMeters |-> set.distanceMeters, stroke |-> set.stroke,
   sendOffSeconds |-> set.sendOffSeconds, intensity |-> set.intensity,
   raw |-> rawLine, lineNumber |-> lineNumber]

\* Variant of setStep: a line that is no set ends the loop
setStepBreak(r, rawLine, lineNumber) ==
  /\ index' = IF IsSome(r.set) THEN index + 1 ELSE Len(lines)
  /\ errors' = r.errors
  /\ sets' = IF IsSome(r.set)
             THEN Append(sets, SetInterval(Get(r.set), rawLine, lineNumber))
             ELSE sets

setStep(r, rawLine, lineNumber) ==
  /\ index' = index + 1
  /\ errors' = r.errors
  /\ sets' = IF IsSome(r.set)
             THEN Append(sets, SetInterval(Get(r.set), rawLine, lineNumber))
             ELSE sets

SetLine ==
  /\ inLoop("set")
  /\ setStep(parseSetLine(trim(lines[index + 1]), currentSection, index + 1, errors),
             lines[index + 1], index + 1)
  /\ UNCHANGED <<goal, text, lines, header, warnings, currentSection, totals, pc>>
  /\ UNCHANGED <<timeVars, genVars, callVars, serviceVars>>

\* Lines 60-98: totals, estimate, warnings, return
withEstimate(t, estimatedMinutes) ==
  IF IsSome(estimatedMinutes) THEN [t EXCEPT !.estimatedMinutes = estimatedMinutes] ELSE t

finishTotals(t) ==
  withEstimate(t, estimateDurationMinutes(sets, t.totalDistanceMeters))

finishStep(t) ==
  /\ totals' = t
  /\ warnings' = warnings \o varianceWarnings(header, t)

Finish ==
  /\ pc = "loop" /\ index = Len(lines)
  /\ finishStep(finishTotals(computeTotals(sets)))
  /\ pc' = "done"
  /\ UNCHANGED <<goal, text, lines, index, header, sets, errors, currentSection>>
  /\ UNCHANGED <<timeVars, genVars, callVars, serviceVars>>

Next ==
  \/ Interpret \/ Generate
  \/ SkipLine \/ SectionLine \/ HeaderLine \/ SetLine
  \/ Finish

Spec == Init /\ [][Next]_vars

\* ------------------------------------------------------------------------
\* interpretShorthand on documents of section headers, header directives
\* and the lines around them: the same loop, entered with other documents
\* ------------------------------------------------------------------------
MaxDirectiveLines == 2

DirectiveBank == {
  \* title Kick:
  <<"t", "i", "t", "l", "e", " ", "K", "i", "c", "k", ":">>,
  \* focus a  b
  <<"f", "o", "c", "u", "s", " ", "a", " ", " ", "b">>,
  \* title
  <<"t", "i", "t", "l", "e">>,
  \* profile X y
  <<"p", "r", "o", "f", "i", "l", "e", " ", "X", " ", "y">>,
  \*  Warm Up:
  <<" ", "W", "a", "r", "m", " ", "U", "p", ":">>,
  \* :
  <<":">>,
  \* # note:
  <<"#", " ", "n", "o", "t", "e", ":">>,
  \* 100 FR
  <<"1", "0", "0", " ", "F", "R">>,
  \* nope
  <<"n", "o", "p", "e">>,
  \* pool 25
  <<"p", "o", "o", "l", " ", "2", "5">>,
  \* pool x50m 2
  <<"p", "o", "o", "l", " ", "x", "5", "0", "m", " ", "2">>,
  \* pool
  <<"p", "o", "o", "l">>,
  \* duration 45
  <<"d", "u", "r", "a", "t", "i", "o", "n", " ", "4", "5">>,
  \* duration soon
  <<"d", "u", "r", "a", "t", "i", "o", "n", " ", "s", "o", "o", "n">>,
  \* pool 25:
  <<"p", "o", "o", "l", " ", "2", "5", ":">>,
  \* 0x50 FR constructor
  <<"0", "x", "5", "0", " ", "F", "R", " ", "c", "o", "n", "s", "t", "r", "u", "c", "t", "o", "r">>,
  \* 2x50 FR @1:65 fast
  <<"2", "x", "5", "0", " ", "F", "R", " ", "@", "1", ":", "6", "5", " ", "f", "a", "s", "t">>,
  \* a line of one space and one tab
  <<" ", "\t">> }

InterpretDirectives ==
  /\ pc = "idle"
  /\ \E n \in 1..MaxDirectiveLines : \E ls \in [1..n -> DirectiveBank] :
       enter(join(ls, <<"\n">>))
  /\ goal' = None
  /\ UNCHANGED <<timeVars, genVars, callVars, serviceVars>>

NextDirectives ==
  \/ InterpretDirectives
  \/ SkipLine \/ SectionLine \/ HeaderLine \/ SetLine
  \/ Finish

SpecDirectives == Init /\ [][NextDirectives]_vars

\* ------------------------------------------------------------------------
\* The time codec on its own: parse a text, format the result; or format
\* a given number of seconds
\* ------------------------------------------------------------------------
MaxTimeLen == 4
MaxMinutes == 12
MaxFormatSeconds == 200

TimeAlphabet == {"0", "1", "4", "5", "6", ":", "-", "a", " "}

\* the texts of n characters of the alphabet
TimeTexts(n) == {SubSeq(f, 1, n) : f \in [1..n -> TimeAlphabet]}

\* minutes without padding, a colon, seconds as two digits in 00..59
CanonicalTexts ==
  {toString(m) \o <<":", DigitChars[d1 + 1], DigitChars[d2 + 1]>> :
     m \in 0..MaxMinutes, d1 \in 0..5, d2 \in 0..9}

TimeParse ==
  /\ tpc = "idle"
  /\ \E n \in 0..MaxTimeLen : \E s \in TimeTexts(n) \cup CanonicalTexts :
       /\ timeText' = s
       /\ timeSeconds' = parseTimeToSeconds(s)
  /\ timeFormatted' = None
  /\ tpc' = "parsed"
  /\ UNCHANGED <<interpVars, genVars, callVars, serviceVars>>

TimeFormat ==
  /\ tpc = "parsed"
  /\ timeFormatted' = formatSecondsAsTime(timeSeconds)
  /\ tpc' = "formatted"
  /\ UNCHANGED <<timeText, timeSeconds>>
  /\ UNCHANGED <<interpVars, genVars, callVars, serviceVars>>

TimeFormatGiven ==
  /\ tpc = "idle"
  /\ \E n \in (-1)..MaxFormatSeconds :
       /\ timeSeconds' = Some(n)
       /\ timeFormatted' = formatSecondsAsTime(Some(n))
  /\ tpc' = "given"
  /\ UNCHANGED timeText
  /\ UNCHANGED <<interpVars, genVars, callVars, serviceVars>>

NextTime == TimeParse \/ TimeFormat \/ TimeFormatGiven

SpecTime == Init /\ [][NextTime]_vars

\* ------------------------------------------------------------------------
\* generateWorkoutDSL on its own: the target is chosen, then the set lines
\* are built and the text is rendered
\* ------------------------------------------------------------------------
GenPools == {10, 25, 33, 50, 200}
GenTargets ==
  {None, Some(1), Some(1499), Some(1500), Some(3000), Some(6000), Some(6001),
   Some(9000)}
GenGoals ==
  [poolLengthMeters : GenPools, targetDistanceMeters : GenTargets,
   targetDurationMinutes : {None}, focus : Focuses, profile : Profiles,
   title : {None, Some(<<"A", "M">>)}]

\* generateWorkoutDSL, lines 36-41: pool, template, baseTotal, targetTotal
genChosen(g, baseTotal) ==
  /\ genGoal' = Some(g)
  /\ genBase' = baseTotal
  /\ genTarget' = chooseTargetDistance(g, baseTotal)

GenChoose ==
  /\ gpc = "idle"
  /\ \E g \in GenGoals :
       genChosen(g, computeTemplateDistance(TEMPLATES(g.focus), g.poolLengthMeters))
  /\ gpc' = "chosen"
  /\ UNCHANGED <<genLines, genText>>
  /\ UNCHANGED <<interpVars, timeVars, callVars, serviceVars>>

\* generateWorkoutDSL, lines 52-78: the set line (dsl) of each template line
genSetLines(template, pool, targetTotal, baseTotal) ==
  [i \in 1..Len(template) |->
     buildSetLine(scaleReps(template[i], targetTotal, baseTotal),
                  normalizeToPool(template[i].distance, pool),
                  template[i].stroke, template[i].sendOff, template[i].intensity)]

GenRender ==
  /\ gpc = "chosen"
  /\ genLines' = genSetLines(TEMPLATES(genGoal[1].focus), genGoal[1].poolLengthMeters,
                             genTarget, genBase)
  /\ genText' = generateLines(genGoal[1], TEMPLATES(genGoal[1].focus),
                              genGoal[1].poolLengthMeters, genTarget, genBase)
  /\ gpc' = "rendered"
  /\ UNCHANGED <<genGoal, genBase, genTarget>>
  /\ UNCHANGED <<interpVars, timeVars, callVars, serviceVars>>

NextGen == GenChoose \/ GenRender

SpecGen == Init /\ [][NextGen]_vars

\* ------------------------------------------------------------------------
\* Concurrent invocations: each call of interpretShorthand or
\* generateWorkoutDSL keeps its accumulators in its own locals; the only
\* module-level value is TEMPLATES, which generateWorkoutDSL reads.  The
\* steps of the calls interleave freely.
\* ------------------------------------------------------------------------
MaxCallLines == 2

CallBank == {
  \*  Warm Up:
  <<" ", "W", "a", "r", "m", " ", "U", "p", ":">>,
  \* duration 30min
  <<"d", "u", "r", "a", "t", "i", "o", "n", " ", "3", "0", "m", "i", "n">>,
  \* 10x100 FR @1:65 thresh
  <<"1", "0", "x", "1", "0", "0", " ", "F", "R", " ", "@", "1", ":", "6", "5", " ", "t", "h", "r", "e", "s", "h">> }

CallGoals ==
  [poolLengthMeters : {25}, targetDistanceMeters : {None},
   targetDurationMinutes : {None}, focus : {S_threshold, S_sprint},
   profile : {S_intermediate}, title : {None}]

\* interpretShorthand, lines 15-22
callEnter(t) ==
  [IdleCall EXCEPT !.kind = "interpret", !.pc = "loop", !.text = t,
                   !.lines = splitLines(t)]

\* Variant of callSection: the active section is one module-level variable,
\* which the latest section header of any invocation has set
callSectionShared(p) ==
  IF \E q \in Procs : q # p /\ calls[q].currentSection # S_main
  THEN calls[CHOOSE q \in Procs : q # p /\ calls[q].currentSection # S_main].currentSection
  ELSE calls[p].currentSection

\* the active section the invocation of p reads: its own local
callSection(p) == calls[p].currentSection

\* interpretShorthand, lines 24-58: one turn of the loop on the locals c
callLine(c, section, rawLine, lineNumber, kind) ==
  IF kind = "skip" THEN [c EXCEPT !.index = lineNumber]
  ELSE IF kind = "section" THEN
    IF Len(sectionNameOf(trim(rawLine))) = 0
    THEN [c EXCEPT !.index = lineNumber,
                   !.errors = Append(@, ParseError(lineNumber, "Empty section name.", <<>>))]
    ELSE [c EXCEPT !.index = lineNumber,
                   !.currentSection = sectionNameOf(trim(rawLine))]
  ELSE IF kind = "header" THEN
    [c EXCEPT !.index = lineNumber,
              !.header = handleHeaderLine(trim(rawLine), c.header, lineNumber, c.errors).header,
              !.errors = handleHeaderLine(trim(rawLine), c.header, lineNumber, c.errors).errors]
  ELSE
    [c EXCEPT !.index = lineNumber,
              !.errors = parseSetLine(trim(rawLine), section, lineNumber, c.errors).errors,
              !.sets = IF IsSome(parseSetLine(trim(rawLine), section, lineNumber, c.errors).set)
                       THEN Append(@, SetInterval(
                              Get(parseSetLine(trim(rawLine), section, lineNumber, c.errors).set),
                              rawLine, lineNumber))
                       ELSE @]

\* interpretShorthand, lines 60-98, t being computeTotals(sets) with the
\* estimate
callFinish(c, t) ==
  [c EXCEPT !.totals = t, !.warnings = @ \o varianceWarnings(c.header, t), !.pc = "done"]

callTotals(c, t) ==
  callFinish(c, withEstimate(t, estimateDurationMinutes(c.sets, t.totalDistanceMeters)))

\* generateWorkoutDSL, lines 36-41, template being TEMPLATES[goal.focus]
callChosen(g, baseTotal) ==
  [IdleCall EXCEPT !.kind = "generate", !.pc = "chosen", !.goal = Some(g),
                   !.baseTotal = baseTotal,
                   !.targetTotal = chooseTargetDistance(g, baseTotal)]

CallInterpret(p) ==
  /\ calls[p].pc = "idle"
  /\ \E n \in 1..MaxCallLines : \E ls \in [1..n -> CallBank] :
       calls' = [calls EXCEPT ![p] = callEnter(join(ls, <<"\n">>))]
  /\ UNCHANGED <<catalog, interpVars, timeVars, genVars, serviceVars>>

CallLine(p) ==
  /\ calls[p].kind = "interpret" /\ calls[p].pc = "loop"
  /\ calls[p].index < Len(calls[p].lines)
  /\ calls' = [calls EXCEPT ![p] =
       callLine(calls[p], callSection(p), calls[p].lines[calls[p].index + 1],
                calls[p].index + 1, lineKind(trim(calls[p].lines[calls[p].index + 1])))]
  /\ UNCHANGED <<catalog, interpVars, timeVars, genVars, serviceVars>>

CallFinish(p) ==
  /\ calls[p].kind = "interpret" /\ calls[p].pc = "loop"
  /\ calls[p].index = Len(calls[p].lines)
  /\ calls' = [calls EXCEPT ![p] = callTotals(calls[p], computeTotals(calls[p].sets))]
  /\ UNCHANGED <<catalog, interpVars, timeVars, genVars, serviceVars>>

CallGenerate(p) ==
  /\ calls[p].pc = "idle"
  /\ \E g \in CallGoals :
       calls' = [calls EXCEPT ![p] =
         callChosen(g, computeTemplateDistance(catalog[g.focus], g.poolLengthMeters))]
  /\ UNCHANGED <<catalog, interpVars, timeVars, genVars, serviceVars>>

\* generateWorkoutDSL, lines 52-112: the template is read again, line by
\* line; nothing is assigned to it
CallRender(p) ==
  /\ calls[p].kind = "generate" /\ calls[p].pc = "chosen"
  /\ calls' = [calls EXCEPT ![p] =
       [calls[p] EXCEPT !.pc = "done",
                        !.text = generateLines(calls[p].goal[1], catalog[calls[p].goal[1].focus],
                                               calls[p].goal[1].poolLengthMeters,
                                               calls[p].targetTotal, calls[p].baseTotal)]]
  /\ UNCHANGED <<catalog, interpVars, timeVars, genVars, serviceVars>>

\* the caller has consumed the result
CallReturn(p) ==
  /\ calls[p].pc = "done"
  /\ calls' = [calls EXCEPT ![p] = IdleCall]
  /\ UNCHANGED <<catalog, interpVars, timeVars, genVars, serviceVars>>

NextCalls ==
  \E p \in Procs :
    \/ CallInterpret(p) \/ CallLine(p) \/ CallFinish(p)
    \/ CallGenerate(p) \/ CallRender(p) \/ CallReturn(p)

SpecCalls == Init /\ [][NextCalls]_vars

\* ------------------------------------------------------------------------
\* Properties: helpers (independent of the operators above)
\* ------------------------------------------------------------------------
Done == pc = "done"
Generated == IsSome(goal)

estimate == totals.estimatedMinutes
planned == header.plannedDurationMinutes

\* the sum over the sets i.. of reps * distanceMeters
RECURSIVE SetsDistance(_, _)
SetsDistance(ss, i) ==
  IF i > Len(ss) THEN 0
  ELSE ss[i].reps * ss[i].distanceMeters + SetsDistance(ss, i + 1)

\* the sum over the sets i.. that carry a send-off of reps * sendOffSeconds
RECURSIVE SetsSendOff(_, _)
SetsSendOff(ss, i) ==
  IF i > Len(ss) THEN 0
  ELSE (IF ss[i].sendOffSeconds # <<>> THEN ss[i].reps * ss[i].sendOffSeconds[1] ELSE 0)
       + SetsSendOff(ss, i + 1)

\* two rationals <<num, den>> are the same number
SameRatio(a, b) == a[1] * b[2] = b[1] * a[2]

\* total * 90 / 100 / 60 minutes, in lowest terms of the factor: 3 / 200
PaceMinutes(total) == <<total * 3, 200>>

CarryingSendOff == {i \in 1..Len(sets) : sets[i].sendOffSeconds # <<>>}

\* the sum of the values of a bucket object, when all of them are numbers
RECURSIVE BucketSum(_, _)
BucketSum(obj, keys) ==
  IF keys = {} THEN 0
  ELSE LET k == CHOOSE x \in keys : TRUE
       IN obj[k].v + BucketSum(obj, keys \ {k})

AllNumbers(obj) == \A k \in DOMAIN obj : obj[k].t = "number"

BucketsTotal(obj) == AllNumbers(obj) /\ BucketSum(obj, DOMAIN obj) = totals.totalDistanceMeters

\* ------------------------------------------------------------------------
\* Properties
\* ------------------------------------------------------------------------

\* C1: for every input text the totals are consistent: totalDistanceMeters
\* is the sum over the sets of reps * distanceMeters, the values of
\* distanceBySection sum to it, the values of distanceByIntensity sum to
\* it, and a set without intensity is counted under "unknown".
C1_TotalsConsistent ==
  Done =>
    /\ totals.totalDistanceMeters = SetsDistance(sets, 1)
    /\ BucketsTotal(totals.distanceBySection)
    /\ BucketsTotal(totals.distanceByIntensity)
    /\ (\E i \in 1..Len(sets) : sets[i].intensity = <<>>)
         => S_unknown \in DOMAIN totals.distanceByIntensity

\* A line of the input is malformed when the line alone, interpreted from
\* an empty state, records an error.
lineErrors(rawLine) ==
  IF lineKind(trim(rawLine)) = "skip" THEN <<>>
  ELSE IF lineKind(trim(rawLine)) = "section"
  THEN (IF Len(sectionNameOf(trim(rawLine))) = 0 THEN <<1>> ELSE <<>>)
  ELSE IF lineKind(trim(rawLine)) = "header"
  THEN handleHeaderLine(trim(rawLine), EmptyHeader, 1, <<>>).errors
  ELSE parseSetLine(trim(rawLine), S_main, 1, <<>>).errors
Malformed(rawLine) == lineErrors(rawLine) # <<>>
MatchesSetGrammar(rawLine) ==
  lineKind(trim(rawLine)) = "set" /\ SET_LINE_REGEX(trim(rawLine)) # <<>>

\* C2: interpretShorthand returns a complete result for every document
\* and a malformed line never stops the processing of later lines: at the
\* return every line was visited, every malformed line is reported by a
\* ParseError with its line number, every line that matches the set
\* grammar has its set, and only malformed lines are reported.
C2_NeverAborts ==
  Done =>
    /\ index = Len(lines)
    /\ \A i \in 1..Len(lines) :
         /\ Malformed(lines[i]) <=> (\E k \in 1..Len(errors) : errors[k].lineNumber = i)
         /\ MatchesSetGrammar(lines[i]) <=> (\E k \in 1..Len(sets) : sets[k].lineNumber = i)
    /\ DOMAIN totals = {"totalDistanceMeters", "distanceBySection",
                        "distanceByIntensity", "estimatedMinutes"}

\* C2 witness: a document of three lines, all malformed, was interpreted to
\* the end
C2_Witness ==
  /\ Done /\ ~Generated /\ Len(lines) = 3
  /\ \A i \in 1..3 : Malformed(lines[i]) /\ ~MatchesSetGrammar(lines[i])
  /\ Len(errors) = 3 /\ sets = <<>>

\* C3: interpreting the text generated for valid constraints yields no
\* parse error.
C3_GeneratedTextParses == (Done /\ Generated) => errors = <<>>

\* the smallest multiple of pool that is at least distance
SmallestMultiple(distance, pool) ==
  CHOOSE d \in distance..(distance + pool) :
    /\ d % pool = 0
    /\ \A e \in distance..(distance + pool) : e % pool = 0 => d <= e

goalTemplate == TEMPLATES(goal[1].focus)
goalBase == computeTemplateDistance(goalTemplate, goal[1].poolLengthMeters)

\* C4: the sets read back from a generated text are the template lines of
\* the focus, one set per line in template order, with the line's section,
\* the scaled reps, the distance rounded up to the pool, the stroke, the
\* send-off in seconds and the intensity.
C4_BodyRoundTrip ==
  (Done /\ Generated) =>
    /\ Len(sets) = Len(goalTemplate)
    /\ \A i \in 1..Len(goalTemplate) :
         /\ sets[i].section = goalTemplate[i].section
         /\ sets[i].reps = scaleReps(goalTemplate[i],
                                     chooseTargetDistance(goal[1], goalBase), goalBase)
         /\ sets[i].distanceMeters =
              SmallestMultiple(goalTemplate[i].distance, goal[1].poolLengthMeters)
         /\ sets[i].stroke = goalTemplate[i].stroke
         /\ sets[i].sendOffSeconds =
              (IF goalTemplate[i].sendOff = <<>> THEN <<>>
               ELSE parseTimeToSeconds(goalTemplate[i].sendOff[1]))
         /\ sets[i].intensity = goalTemplate[i].intensity

\* C5: the header read back from a generated text is the constraints'
\* pool length, duration, title, focus and profile, and the header lines
\* of the generated text leave the active section alone.
C5_HeaderRoundTrip ==
  /\ (Done /\ Generated) =>
       /\ header.poolLengthMeters = <<goal[1].poolLengthMeters>>
       /\ header.plannedDurationMinutes = goal[1].targetDurationMinutes
       /\ header.title = goal[1].title
       /\ header.focus = <<goal[1].focus>>
       /\ header.profile = <<goal[1].profile>>
  /\ (pc = "loop" /\ Generated /\ index <= Len(headerLines(goal[1])))
       => currentSection = S_main

C7_PaceBranch ==
  Done =>
    /\ Len(sets) = 0 => estimate = <<>>
    /\ (Len(sets) > 0 /\ 2 * Cardinality(CarryingSendOff) < Len(sets)) =>
         IF totals.totalDistanceMeters > 0
         THEN /\ estimate # <<>>
              /\ SameRatio(estimate[1], PaceMinutes(totals.totalDistanceMeters))
         ELSE estimate = <<>>
    /\ (Len(sets) > 0 /\ 2 * Cardinality(CarryingSendOff) >= Len(sets)) => estimate # <<>>

\* C7 witness: one set of three carries a send-off and the estimate is the
\* pace estimate of a positive total
C7_Witness ==
  /\ Done /\ Len(sets) = 3 /\ Cardinality(CarryingSendOff) = 1
  /\ totals.totalDistanceMeters > 0
  /\ estimate # <<>>
  /\ SameRatio(estimate[1], PaceMinutes(totals.totalDistanceMeters))
  /\ SetsSendOff(sets, 1) > 0

\* the estimate minus the plan, times the estimate's denominator
VarianceNum == estimate[1][1] - planned[1] * estimate[1][2]
VarianceOver == planned # <<>> /\ estimate # <<>> /\ VarianceNum > 10 * estimate[1][2]
VarianceUnder == planned # <<>> /\ estimate # <<>> /\ 0 - VarianceNum > 10 * estimate[1][2]

\* C8: there is exactly one warning when a planned duration is declared
\* (0 included), an estimate exists and they differ by more than 10
\* minutes, strictly; no warning otherwise.  The warning says "exceeds"
\* when the estimate is the larger and "shorter" when it is the smaller.
C8_VarianceWarning ==
  Done =>
    /\ VarianceOver =>
         Len(warnings) = 1 /\ warnings[1].message = "exceeds planned duration"
    /\ VarianceUnder =>
         /\ Len(warnings) = 1
         /\ warnings[1].message = "is significantly shorter than planned duration"
    /\ (~VarianceOver /\ ~VarianceUnder) => warnings = <<>>

\* C8 witness: a planned duration of 0 is declared and the estimate of 20
\* minutes exceeds it by more than 10
C8_Witness ==
  /\ Done /\ planned = <<0>> /\ estimate = << <<1200, 60>> >>
  /\ Len(warnings) = 1 /\ warnings[1].message = "exceeds planned duration"

\* What the claim C9 says parseTimeToSeconds returns for a text
ColonAt(s) == {i \in 1..Len(s) : s[i] = ":"}
AllDigits(s) == Len(s) > 0 /\ \A i \in 1..Len(s) : s[i] \in Digits
RECURSIVE Decimal(_)
Decimal(s) ==
  IF Len(s) = 0 THEN 0
  ELSE 10 * Decimal(SubSeq(s, 1, Len(s) - 1)) + DigitVal(s[Len(s)])
MinutesPart(s) == SubSeq(s, 1, Min(ColonAt(s)) - 1)
SecondsPart(s) == SubSeq(s, Min(ColonAt(s)) + 1, Len(s))
ShapeMinSec(s) ==
  /\ Cardinality(ColonAt(s)) = 1
  /\ AllDigits(MinutesPart(s)) /\ AllDigits(SecondsPart(s))
  /\ Decimal(SecondsPart(s)) <= 59
ClaimedSeconds(s) ==
  IF ShapeMinSec(s) THEN <<Decimal(MinutesPart(s)) * 60 + Decimal(SecondsPart(s))>>
  ELSE IF AllDigits(s) THEN <<Decimal(s)>>
  ELSE <<>>

\* C9: parseTimeToSeconds returns a value exactly for <digits>:<digits>
\* with seconds 0..59 and for texts made only of digits, and no value for
\* every other text.
C9_ParseExactShapes == tpc = "parsed" => timeSeconds = ClaimedSeconds(timeText)

IsCanonical(s) ==
  /\ Len(s) >= 4 /\ s[Len(s) - 2] = ":"
  /\ AllDigits(SubSeq(s, 1, Len(s) - 3))
  /\ (s[1] = "0" => Len(s) = 4)
  /\ s[Len(s) - 1] \in {"0", "1", "2", "3", "4", "5"}
  /\ s[Len(s)] \in Digits

T_1_40 == <<"1", ":", "4", "0">>
T_0_45 == <<"0", ":", "4", "5">>

\* C10: format(parse(s)) = s for every canonically formatted s;
\* parse("1:40") = 100, parse("0:45") = 45, format(100) = "1:40",
\* format(45) = "0:45"; the seconds part format emits is two digits in
\* 00..59.
C10_TimeRoundTrip ==
  /\ (tpc = "formatted" /\ IsCanonical(timeText)) => timeFormatted = <<timeText>>
  /\ (tpc = "parsed" /\ timeText = T_1_40) => timeSeconds = <<100>>
  /\ (tpc = "parsed" /\ timeText = T_0_45) => timeSeconds = <<45>>
  /\ (tpc = "given" /\ timeSeconds = <<100>>) => timeFormatted = <<T_1_40>>
  /\ (tpc = "given" /\ timeSeconds = <<45>>) => timeFormatted = <<T_0_45>>
  /\ (tpc \in {"formatted", "given"} /\ timeFormatted # <<>>) => IsCanonical(timeFormatted[1])

\* C10 witness: a canonical text of two-digit minutes and a seconds part
\* below 10 was parsed and formatted back
C10_Witness ==
  /\ tpc = "formatted" /\ IsCanonical(timeText) /\ Len(timeText) = 5
  /\ timeText[4] = "0" /\ timeText[5] # "0"
  /\ timeFormatted = <<timeText>>

\* the constraints name no target distance and no title
PlainGoal ==
  /\ Generated
  /\ goal[1].targetDistanceMeters = <<>>
  /\ goal[1].title = <<>>

S_thresh == <<"t", "h", "r", "e", "s", "h">>

FactorPercent(profile) ==
  IF profile = S_novice THEN 75 ELSE IF profile = S_elite THEN 125 ELSE 100

\* x limited to the closed interval [1500, 6000]
InTargetRange(x) == IF x < MinTarget THEN MinTarget ELSE IF x > MaxTarget THEN MaxTarget ELSE x

\* r is num / den rounded to the nearest integer, a half rounded up
RoundsTo(r, num, den) == 2 * den * r <= 2 * num + den /\ 2 * num + den < 2 * den * (r + 1)

GivenTarget == genGoal[1].targetDistanceMeters # <<>> /\ genGoal[1].targetDistanceMeters[1] > 0

\* C12 as stated: the target is the given target distance when positive,
\* otherwise exactly the nominal total times the profile factor, in both
\* cases limited to [1500, 6000].
C12_TargetExactFactor ==
  gpc # "idle" =>
    /\ genTarget >= MinTarget /\ genTarget <= MaxTarget
    /\ GivenTarget => genTarget = InTargetRange(genGoal[1].targetDistanceMeters[1])
    /\ ~GivenTarget =>
         IF genBase * FactorPercent(genGoal[1].profile) < MinTarget * 100 THEN genTarget = MinTarget
         ELSE IF genBase * FactorPercent(genGoal[1].profile) > MaxTarget * 100
         THEN genTarget = MaxTarget
         ELSE genTarget * 100 = genBase * FactorPercent(genGoal[1].profile)

\* C12 amended: the target is the given target distance when positive,
\* otherwise the nominal total times the profile factor rounded to the
\* nearest integer (a half up), in both cases limited to [1500, 6000].
C12_TargetRounded ==
  gpc # "idle" =>
    /\ genTarget >= MinTarget /\ genTarget <= MaxTarget
    /\ GivenTarget => genTarget = InTargetRange(genGoal[1].targetDistanceMeters[1])
    /\ ~GivenTarget =>
         \E r \in 0..(2 * genBase) :
           /\ RoundsTo(r, genBase * FactorPercent(genGoal[1].profile), 100)
           /\ genTarget = InTargetRange(r)

\* C12 witness: without a given target, the nominal total times 0.75 is
\* no integer, lies inside the range and was rounded up to the target
C12_Witness ==
  /\ gpc = "chosen" /\ ~GivenTarget
  /\ genGoal[1].profile = S_novice
  /\ (genBase * 75) % 100 = 75
  /\ genTarget * 100 = genBase * 75 + 25
  /\ genTarget > MinTarget /\ genTarget < MaxTarget

\* the first token of a generated set line, and the reps written in it:
\* the number before the x, or 1 when the line has no reps prefix
FirstToken(line) == SubSeq(line, 1, Min({i \in 1..Len(line) : line[i] = " "}) - 1)
RepsMark(tok) == {i \in 1..Len(tok) : tok[i] = "x"}
WrittenReps(line) ==
  IF RepsMark(FirstToken(line)) = {} THEN 1
  ELSE Decimal(SubSeq(FirstToken(line), 1, Min(RepsMark(FirstToken(line))) - 1))

\* r limited to the range [1, 3 * baseReps]
InRepsRange(r, baseReps) == IF r < 1 THEN 1 ELSE IF r > 3 * baseReps THEN 3 * baseReps ELSE r

genTemplate == TEMPLATES(genGoal[1].focus)

\* C13: for every template line of the chosen focus, the reps written
\* into the generated set line are round(baseReps * targetTotal /
\* nominalTotal) limited to [1, 3 * baseReps]; the line is a line of the
\* generated text; no line has reps below 1 or above 3 * baseReps.
C13_ScaledReps ==
  gpc = "rendered" =>
    LET textLines == splitLines(genText) IN
    /\ Len(genLines) = Len(genTemplate)
    /\ \A i \in 1..Len(genTemplate) :
         /\ \E r \in 0..(3 * genTemplate[i].baseReps + 1) :
              /\ \/ RoundsTo(r, genTemplate[i].baseReps * genTarget, genBase)
                 \/ /\ r = 3 * genTemplate[i].baseReps + 1
                    /\ 2 * genTemplate[i].baseReps * genTarget + genBase >= 2 * genBase * r
              /\ WrittenReps(genLines[i]) = InRepsRange(r, genTemplate[i].baseReps)
         /\ WrittenReps(genLines[i]) >= 1
         /\ WrittenReps(genLines[i]) <= 3 * genTemplate[i].baseReps
         /\ \E k \in 1..Len(textLines) : textLines[k] = <<" ", " ">> \o genLines[i]

\* C13 witness: a text was rendered in which one line's reps were rounded
\* up from a half or more, one line's reps were scaled down to below its
\* baseReps, and one line with the rounded value 0 is written without prefix
C13_Witness ==
  /\ gpc = "rendered"
  /\ \E i \in 1..Len(genTemplate) :
       /\ (genTemplate[i].baseReps * genTarget) % genBase # 0
       /\ 2 * ((genTemplate[i].baseReps * genTarget) % genBase) >= genBase
       /\ WrittenReps(genLines[i])
            = (genTemplate[i].baseReps * genTarget) \div genBase + 1
  /\ \E i \in 1..Len(genTemplate) :
       WrittenReps(genLines[i]) > 1 /\ WrittenReps(genLines[i]) < genTemplate[i].baseReps
  /\ \E i \in 1..Len(genTemplate) :
       /\ 2 * genTemplate[i].baseReps * genTarget < genBase
       /\ WrittenReps(genLines[i]) = 1

\* the result of interpretShorthand when the invocation runs alone, from
\* the locals c on
RECURSIVE RunAlone(_)
RunAlone(c) ==
  IF c.index < Len(c.lines)
  THEN RunAlone(callLine(c, c.currentSection, c.lines[c.index + 1], c.index + 1,
                         lineKind(trim(c.lines[c.index + 1]))))
  ELSE callTotals(c, computeTotals(c.sets))

\* C14: under any interleaving of concurrent invocations, each invocation
\* returns what it returns when it runs alone (header, sets, errors,
\* warnings, totals of interpretShorthand; the text of
\* generateWorkoutDSL), and the template catalog has the content it was
\* initialized with.
C14_CallsIndependent ==
  /\ catalog = [f \in Focuses |-> TEMPLATES(f)]
  /\ \A p \in Procs :
       calls[p].pc = "done" =>
         IF calls[p].kind = "interpret"
         THEN calls[p] = RunAlone(callEnter(calls[p].text))
         ELSE calls[p].text = generateWorkoutDSL(calls[p].goal[1])

\* C14 witness: two invocations of interpretShorthand have returned, both
\* with a set and its error, in different active sections, one of them with
\* a warning
C14_Witness ==
  /\ calls[1].pc = "done" /\ calls[2].pc = "done"
  /\ calls[1].kind = "interpret" /\ calls[2].kind = "interpret"
  /\ calls[1].sets # <<>> /\ calls[2].sets # <<>>
  /\ calls[1].sets[1].section # calls[2].sets[1].section
  /\ calls[1].errors # <<>> /\ calls[2].errors # <<>>
  /\ calls[1].warnings = <<>> /\ calls[2].warnings # <<>>

\* ------------------------------------------------------------------------
\* C15: the errors list holds at most one ParseError for every line number,
\* whatever the line contains
\* ------------------------------------------------------------------------
C15_OneErrorPerLine ==
  \A i \in 1..Len(errors) : \A j \in 1..Len(errors) :
    errors[i].lineNumber = errors[j].lineNumber => i = j

\* ------------------------------------------------------------------------
\* The classes of lines, as the document grammar words them, on the trimmed
\* line t
\* ------------------------------------------------------------------------
Keywords == {S_pool, S_duration, S_title, S_focus, S_profile}

\* the first whitespace-delimited token of t
FirstWord(t) ==
  IF \E i \in 1..Len(t) : IsSpace(t[i])
  THEN SubSeq(t, 1, (CHOOSE i \in 1..Len(t) :
                       IsSpace(t[i]) /\ \A j \in 1..(i - 1) : ~IsSpace(t[j])) - 1)
  ELSE t

IsBlank(t) == Len(t) = 0
IsComment(t) == Len(t) > 0 /\ t[1] = "#"
IsSectionHeader(t) == Len(t) > 0 /\ t[Len(t)] = ":"
IsDirective(t) == FirstWord(t) \in Keywords

\* [<reps>x]<distance>
IsCount(w) ==
  \/ IsDigits(w)
  \/ \E i \in 1..Len(w) :
       w[i] = "x" /\ IsDigits(SubSeq(w, 1, i - 1)) /\ IsDigits(SubSeq(w, i + 1, Len(w)))

\* [<reps>x]<distance> <stroke>[ @<time>][ <intensity>] on the words w
WordsInGrammar(w) ==
  /\ Len(w) \in 2..4
  /\ IsCount(w[1])
  /\ Len(w) = 4 => (Len(w[3]) >= 2 /\ w[3][1] = "@")

InSetGrammar(t) == WordsInGrammar(splitWs(t))

\* a line of none of the classes
IsRejected(t) ==
  /\ ~IsBlank(t) /\ ~IsComment(t) /\ ~IsSectionHeader(t)
  /\ toLowerCase(FirstWord(t)) \notin Keywords
  /\ ~InSetGrammar(t)

\* the line the loop is about to read, and the one it has just read
AtLine == pc = "loop" /\ index < Len(lines)
NextLine == trim(lines[index + 1])
LastLine == trim(lines[index])

\* ------------------------------------------------------------------------
\* C16: a line that is not blank, not a comment, not a section header, not
\* a header directive and not in the set grammar adds exactly one
\* ParseError, which carries the number of the line, adds no SetInterval and
\* leaves the header, the active section and the totals as they were
\* ------------------------------------------------------------------------
C16_RejectedLine ==
  [][(AtLine /\ IsRejected(NextLine)) =>
       /\ Len(errors') = Len(errors) + 1
       /\ SubSeq(errors', 1, Len(errors)) = errors
       /\ errors'[Len(errors')].lineNumber = index + 1
       /\ sets' = sets
       /\ header' = header
       /\ currentSection' = currentSection
       /\ totals' = totals]_vars

\* C16 witness: a rejected line has been read after a section header and a
\* set
C16_Witness ==
  /\ pc = "loop" /\ index = 3 /\ goal = None
  /\ IsRejected(LastLine)
  /\ currentSection # S_main
  /\ Len(sets) = 1
  /\ Len(errors) = 1 /\ errors[1].lineNumber = 3

\* the set line s was written without a reps prefix
NoRepsPrefix(s) == IsDigits(FirstWord(trim(s.raw)))

\* ------------------------------------------------------------------------
\* C17: every SetInterval has reps and distanceMeters non-negative integers
\* and sendOffSeconds absent or a non-negative integer; a set line without
\* a reps prefix has reps = 1
\* ------------------------------------------------------------------------
C17_SetFields ==
  \A i \in 1..Len(sets) :
    /\ sets[i].reps \in Nat
    /\ sets[i].distanceMeters \in Nat
    /\ sets[i].sendOffSeconds = None
         \/ (Len(sets[i].sendOffSeconds) = 1 /\ sets[i].sendOffSeconds[1] \in Nat)
    /\ NoRepsPrefix(sets[i]) => sets[i].reps = 1

\* C17 witness: a returned document with a set without a reps prefix, a set
\* with a send-off and a set whose reps and distance were invalid
C17_Witness ==
  /\ Done /\ Len(sets) = 3
  /\ NoRepsPrefix(sets[1]) /\ sets[1].reps = 1
  /\ sets[2].sendOffSeconds # None /\ sets[2].reps > 1
  /\ sets[3].reps = 0 /\ sets[3].distanceMeters = 0 /\ sets[3].sendOffSeconds = None

\* the name a section header line t declares
DeclaredName(t) == toLowerCase(trim(SubSeq(t, 1, Len(t) - 1)))

\* t is a section header line: it ends in a colon and is neither a comment
\* nor a header directive
DeclaresSection(t) == IsSectionHeader(t) /\ ~IsComment(t) /\ ~IsDirective(t)
ValidSectionHeader(t) == DeclaresSection(t) /\ Len(DeclaredName(t)) > 0
EmptySectionHeader(t) == DeclaresSection(t) /\ Len(DeclaredName(t)) = 0

\* the valid section header lines among the first k lines
ValidHeadersTo(k) == {i \in 1..k : ValidSectionHeader(trim(lines[i]))}

\* the active section after the first k lines
ActiveAfter(k) ==
  IF ValidHeadersTo(k) = {} THEN S_main
  ELSE DeclaredName(trim(lines[Max(ValidHeadersTo(k))]))

ErrorsAt(k) == {e \in 1..Len(errors) : errors[e].lineNumber = k}

\* ------------------------------------------------------------------------
\* C18: the section of every set is the name of the most recent valid
\* section header line before it, or "main"; a section header with an empty
\* name records one error at its line and leaves the active section as it
\* was; header directives, comments, blank lines and rejected lines never
\* change the active section
\* ------------------------------------------------------------------------
C18_SectionTracking ==
  pc \in {"loop", "done"} =>
    /\ currentSection = ActiveAfter(index)
    /\ \A i \in 1..Len(sets) : sets[i].section = ActiveAfter(sets[i].lineNumber - 1)
    /\ \A k \in 1..index :
         EmptySectionHeader(trim(lines[k])) => Cardinality(ErrorsAt(k)) = 1

\* the header field the directive keyword key names is set in h
FieldSet(key, h) ==
  IF key = S_pool THEN IsSome(h.poolLengthMeters)
  ELSE IF key = S_duration THEN IsSome(h.plannedDurationMinutes)
  ELSE IF key = S_title THEN IsSome(h.title)
  ELSE IF key = S_focus THEN IsSome(h.focus)
  ELSE IsSome(h.profile)

\* ------------------------------------------------------------------------
\* C19: a line that is not blank, not a comment and whose first token is
\* pool, duration, title, focus or profile sets its header field or records
\* an error, is never passed to the set grammar and never changes the
\* active section, whatever the rest of the line contains
\* ------------------------------------------------------------------------
C19_DirectiveFirst ==
  [][(AtLine /\ ~IsBlank(NextLine) /\ ~IsComment(NextLine) /\ IsDirective(NextLine)) =>
       /\ currentSection' = currentSection
       /\ sets' = sets
       /\ \/ FieldSet(FirstWord(NextLine), header') /\ errors' = errors
          \/ /\ header' = header
             /\ Len(errors') = Len(errors) + 1
             /\ SubSeq(errors', 1, Len(errors)) = errors
             /\ errors'[Len(errors')].lineNumber = index + 1
             /\ errors'[Len(errors')].message # "Unrecognized set syntax."]_vars

TextKeywords == {S_title, S_focus, S_profile}

\* the remainder of the directive line t after its keyword, as written
Remainder(t) == trim(SubSeq(t, Len(FirstWord(t)) + 1, Len(t)))

\* the header field the keyword key names
FieldOf(key, h) ==
  IF key = S_title THEN h.title ELSE IF key = S_focus THEN h.focus ELSE h.profile

\* ------------------------------------------------------------------------
\* C20: a title, focus or profile directive sets its header field to the
\* remainder of the line after the keyword, character for character, and to
\* the empty string when nothing follows the keyword
\* ------------------------------------------------------------------------
C20_RemainderVerbatim ==
  [][(AtLine /\ ~IsBlank(NextLine) /\ ~IsComment(NextLine)
        /\ FirstWord(NextLine) \in TextKeywords) =>
       FieldOf(FirstWord(NextLine), header') = Some(Remainder(NextLine))]_vars

NumberKeywords == {S_pool, S_duration}

HasDigit(s) == \E i \in 1..Len(s) : IsDigit(s[i])
FirstDigitAt(s) == Min({i \in 1..Len(s) : IsDigit(s[i])})
RunEndFrom(s, i) == Max({j \in i..Len(s) : \A k \in i..j : IsDigit(s[k])})

\* the number written by the first run of digits of s
FirstNumber(s) == Decimal(SubSeq(s, FirstDigitAt(s), RunEndFrom(s, FirstDigitAt(s))))

\* the header field the keyword key names, for pool and duration
NumberFieldOf(key, h) ==
  IF key = S_pool THEN h.poolLengthMeters ELSE h.plannedDurationMinutes

\* ------------------------------------------------------------------------
\* C21: a pool or duration directive sets its header field to the first run
\* of digits of the remainder of the line; when the remainder has no digit
\* the line records exactly one ParseError at its line number, adds no set
\* and leaves the header field at the value it had
\* ------------------------------------------------------------------------
C21_NumberDirective ==
  [][(AtLine /\ ~IsBlank(NextLine) /\ ~IsComment(NextLine)
        /\ FirstWord(NextLine) \in NumberKeywords) =>
       IF HasDigit(Remainder(NextLine))
       THEN NumberFieldOf(FirstWord(NextLine), header') = Some(FirstNumber(Remainder(NextLine)))
       ELSE /\ Len(errors') = Len(errors) + 1
            /\ SubSeq(errors', 1, Len(errors)) = errors
            /\ errors'[Len(errors')].lineNumber = index + 1
            /\ sets' = sets
            /\ NumberFieldOf(FirstWord(NextLine), header')
                 = NumberFieldOf(FirstWord(NextLine), header)]_vars

\* t is a set line: none of the other classes, and in the set grammar
IsSetLine(t) ==
  /\ ~IsBlank(t) /\ ~IsComment(t) /\ ~IsSectionHeader(t)
  /\ toLowerCase(FirstWord(t)) \notin Keywords
  /\ InSetGrammar(t)

\* the reps and the distance the first word [<reps>x]<distance> writes
TimesAt(w) == {i \in 1..Len(w) : w[i] = "x"}
CountReps(w) == IF TimesAt(w) = {} THEN 1 ELSE Decimal(SubSeq(w, 1, Min(TimesAt(w)) - 1))
CountDistance(w) ==
  IF TimesAt(w) = {} THEN Decimal(w) ELSE Decimal(SubSeq(w, Min(TimesAt(w)) + 1, Len(w)))

\* a set line whose reps or distance is 0
IsZeroLine(t) ==
  IsSetLine(t) /\ (CountReps(FirstWord(t)) = 0 \/ CountDistance(FirstWord(t)) = 0)

IntensityKey(s) == IF s.intensity = None THEN S_unknown ELSE s.intensity[1]

\* the distance of the sets i.. that are in the section, or have the
\* intensity, key
RECURSIVE SectionDistance(_, _, _)
SectionDistance(ss, key, i) ==
  IF i > Len(ss) THEN 0
  ELSE (IF ss[i].section = key THEN ss[i].reps * ss[i].distanceMeters ELSE 0)
       + SectionDistance(ss, key, i + 1)
RECURSIVE IntensityDistance(_, _, _)
IntensityDistance(ss, key, i) ==
  IF i > Len(ss) THEN 0
  ELSE (IF IntensityKey(ss[i]) = key THEN ss[i].reps * ss[i].distanceMeters ELSE 0)
       + IntensityDistance(ss, key, i + 1)

\* the set s adds nothing to the total and leaves in its two buckets the
\* distance of the other sets
AddsNothing(s) ==
  /\ s.reps * s.distanceMeters = 0
  /\ totals.totalDistanceMeters = SetsDistance(sets, 1)
  /\ objGet(totals.distanceBySection, s.section)
       = Num(SectionDistance(sets, s.section, 1))
  /\ objGet(totals.distanceByIntensity, IntensityKey(s))
       = Num(IntensityDistance(sets, IntensityKey(s), 1))

\* the estimate takes the send-off branch exactly when twice the sets
\* carrying a send-off are at least all the sets
ThresholdCountsAll ==
  IF 2 * Cardinality(CarryingSendOff) >= Len(sets)
  THEN estimate # None /\ estimate[1][1] * 60 = SetsSendOff(sets, 1) * estimate[1][2]
  ELSE estimate = None \/ SameRatio(estimate[1], PaceMinutes(SetsDistance(sets, 1)))

\* ------------------------------------------------------------------------
\* C22: a line in the set grammar with reps = 0 or distance = 0 is appended
\* to the sets with the offending field 0 and an error at its line; the set
\* adds 0 to totalDistanceMeters and to its section and intensity buckets,
\* and counts among the sets of the duration-estimate threshold
\* ------------------------------------------------------------------------
C22_ZeroSetKept ==
  Done =>
    \A k \in 1..Len(lines) :
      IsZeroLine(trim(lines[k])) =>
        /\ ErrorsAt(k) # {}
        /\ \E i \in 1..Len(sets) :
             /\ sets[i].lineNumber = k
             /\ sets[i].reps = CountReps(FirstWord(trim(lines[k])))
             /\ sets[i].distanceMeters = CountDistance(FirstWord(trim(lines[k])))
             /\ AddsNothing(sets[i])
        /\ ThresholdCountsAll

\* the set line t has an @<time> token, and the token without its @
HasTimeToken(t) ==
  /\ IsSetLine(t) /\ Len(splitWs(t)) >= 3
  /\ Len(splitWs(t)[3]) >= 2 /\ splitWs(t)[3][1] = "@"
TimeTokenOf(t) == Tail(splitWs(t)[3])
TimeRejected(t) == HasTimeToken(t) /\ parseTimeToSeconds(TimeTokenOf(t)) = None

\* the intensity the set line t with a time token writes
IntensityAfterTime(t) == IF Len(splitWs(t)) = 4 THEN Some(splitWs(t)[4]) ELSE None

\* ------------------------------------------------------------------------
\* C23: a set line whose @time token the time codec rejects records an
\* error at its line and is still appended to the sets with its reps,
\* distance, stroke and intensity and without sendOffSeconds; its distance
\* counts in totalDistanceMeters
\* ------------------------------------------------------------------------
C23_RejectedTimeKept ==
  Done =>
    \A k \in 1..Len(lines) :
      TimeRejected(trim(lines[k])) =>
        /\ \E e \in ErrorsAt(k) : errors[e].message = "Invalid time format"
        /\ \E i \in 1..Len(sets) :
             /\ sets[i].lineNumber = k
             /\ sets[i].reps = CountReps(FirstWord(trim(lines[k])))
             /\ sets[i].distanceMeters = CountDistance(FirstWord(trim(lines[k])))
             /\ sets[i].stroke = splitWs(trim(lines[k]))[2]
             /\ sets[i].intensity = IntensityAfterTime(trim(lines[k]))
             /\ sets[i].sendOffSeconds = None
        /\ totals.totalDistanceMeters = SetsDistance(sets, 1)

\* C23 witness: a document whose second line 2x50 with a rejected time is
\* returned as a set of 100 without send-off, after a set of 100
C23_Witness ==
  /\ Done /\ Len(lines) = 2 /\ Len(sets) = 2
  /\ TimeRejected(trim(lines[2]))
  /\ sets[2].reps = 2 /\ sets[2].distanceMeters = 50 /\ sets[2].intensity # None
  /\ sets[2].sendOffSeconds = None
  /\ totals.totalDistanceMeters = 200
  /\ Len(errors) = 1 /\ errors[1].lineNumber = 2

\* t is a line that is ignored: blank, or a comment
IsIgnored(t) == IsBlank(t) \/ IsComment(t)

\* the lines i.. of ls that are not ignored
RECURSIVE KeptLines(_, _)
KeptLines(ls, i) ==
  IF i > Len(ls) THEN <<>>
  ELSE (IF IsIgnored(trim(ls[i])) THEN <<>> ELSE <<ls[i]>>) \o KeptLines(ls, i + 1)

\* the result of interpretShorthand on the document without its ignored
\* lines
WithoutIgnored == RunAlone(callEnter(join(KeptLines(lines, 1), <<"\n">>)))

\* a set, and an error, without the line number
Unnumbered(s) ==
  [section |-> s.section, reps |-> s.reps, distanceMeters |-> s.distanceMeters,
   stroke |-> s.stroke, sendOffSeconds |-> s.sendOffSeconds,
   intensity |-> s.intensity, raw |-> s.raw]
UnnumberedAll(ss) == [i \in 1..Len(ss) |-> Unnumbered(ss[i])]
Messages(es) == [i \in 1..Len(es) |-> [message |-> es[i].message, quoted |-> es[i].quoted]]

SameButNumbers(r) ==
  /\ header = r.header
  /\ UnnumberedAll(sets) = UnnumberedAll(r.sets)
  /\ Messages(errors) = Messages(r.errors)
  /\ totals = r.totals
  /\ warnings = r.warnings

\* ------------------------------------------------------------------------
\* C24: blank lines and lines whose first non-blank character is # add no
\* set and no error and leave the header and the active section alone:
\* the result is that of the document without them, but for the line
\* numbers
\* ------------------------------------------------------------------------
C24_IgnoredLines ==
  Done =>
    /\ \A k \in 1..Len(lines) :
         IsIgnored(trim(lines[k])) =>
           /\ ErrorsAt(k) = {}
           /\ \A i \in 1..Len(sets) : sets[i].lineNumber # k
    /\ SameButNumbers(WithoutIgnored)

\* C24 witness: a comment that ends in a colon stands before a set, and
\* the set is returned with line number 2 in the section "main"
C24_Witness ==
  /\ Done /\ Len(lines) = 2
  /\ IsComment(trim(lines[1])) /\ IsSectionHeader(trim(lines[1]))
  /\ Len(sets) = 1 /\ sets[1].lineNumber = 2 /\ sets[1].section = S_main
  /\ errors = <<>>

\* the lines of the input, split at its line feeds; a carriage return in
\* front of a line feed belongs to the line break
InputLine(pieces, k) ==
  IF k < Len(pieces) /\ Len(pieces[k]) > 0 /\ pieces[k][Len(pieces[k])] = "\r"
  THEN SubSeq(pieces[k], 1, Len(pieces[k]) - 1)
  ELSE pieces[k]

LineNumbersOn(pieces) ==
  /\ \A i \in 1..Len(sets) :
       /\ sets[i].lineNumber \in 1..Len(pieces)
       /\ sets[i].raw = InputLine(pieces, sets[i].lineNumber)
       /\ IsSetLine(trim(sets[i].raw))
  /\ \A e \in 1..Len(errors) :
       /\ errors[e].lineNumber \in 1..Len(pieces)
       /\ Malformed(InputLine(pieces, errors[e].lineNumber))
  /\ \A i \in 1..(Len(sets) - 1) : sets[i].lineNumber < sets[i + 1].lineNumber
  /\ \A e \in 1..(Len(errors) - 1) : errors[e].lineNumber <= errors[e + 1].lineNumber

\* ------------------------------------------------------------------------
\* C25: every ParseError and every SetInterval carries the 1-based index of
\* its line in the newline-split input, blank and comment lines counted;
\* the sets are in strictly increasing and the errors in non-decreasing
\* order of line number; the raw field of a set is its untrimmed line
\* ------------------------------------------------------------------------
C25_LineNumbers ==
  pc \in {"loop", "done"} =>
    LET pieces == split(text, "\n") IN LineNumbersOn(pieces)

\* C25 witness: a blank first line is counted, so that the set of the second
\* line and the error of its time token both carry line number 2, and the
\* raw field of the set is the second line as written
C25_Witness ==
  /\ Done /\ Len(lines) = 2 /\ IsBlank(trim(lines[1]))
  /\ Len(sets) = 1 /\ sets[1].lineNumber = 2 /\ sets[1].raw = lines[2]
  /\ Len(errors) = 1 /\ errors[1].lineNumber = 2

HeaderFields == {"poolLengthMeters", "plannedDurationMinutes", "title", "focus", "profile"}

\* the header the line l gives when it is the whole document
AloneHeader(l) == RunAlone(callEnter(l)).header

\* the value the last of the first k lines that sets the field f gives it
RECURSIVE LastDirective(_, _)
LastDirective(f, k) ==
  IF k = 0 THEN None
  ELSE IF AloneHeader(lines[k])[f] # None THEN AloneHeader(lines[k])[f]
  ELSE LastDirective(f, k - 1)

WrittenDistance(line) ==
  IF RepsMark(FirstToken(line)) = {} THEN Decimal(FirstToken(line))
  ELSE Decimal(SubSeq(FirstToken(line), Min(RepsMark(FirstToken(line))) + 1,
                      Len(FirstToken(line))))

\* the sum over the generated set lines i.. of reps * distance
RECURSIVE WrittenTotalFrom(_, _)
WrittenTotalFrom(ls, i) ==
  IF i > Len(ls) THEN 0
  ELSE WrittenReps(ls[i]) * WrittenDistance(ls[i]) + WrittenTotalFrom(ls, i + 1)

WrittenTotal == WrittenTotalFrom(genLines, 1)

\* ------------------------------------------------------------------------
\* C27: for a positive explicit target distance and pool length 25 or 50,
\* the total distance of the generated workout, the sum over the generated
\* set lines of reps * distance, lies within [1500, 6000]
\* ------------------------------------------------------------------------
C27_TotalInRange ==
  (gpc = "rendered" /\ GivenTarget /\ genGoal[1].poolLengthMeters \in {25, 50}) =>
    WrittenTotal >= MinTarget /\ WrittenTotal <= MaxTarget

\* C27 as amended: the total distance of the generated workout is at least
\* 1500 and differs from the target total, the given target limited to
\* [1500, 6000], by less than one repetition of every template line; the
\* separate rounding of each line's reps can take it above 6000
OneRepOfEach == computeTemplateDistanceFrom(
                  [i \in 1..Len(genTemplate) |-> [genTemplate[i] EXCEPT !.baseReps = 1]],
                  genGoal[1].poolLengthMeters, 1)

C27_TotalNearTarget ==
  (gpc = "rendered" /\ GivenTarget /\ genGoal[1].poolLengthMeters \in {25, 50}) =>
    /\ genTarget >= MinTarget /\ genTarget <= MaxTarget
    /\ WrittenTotal >= MinTarget
    /\ WrittenTotal - InTargetRange(genGoal[1].targetDistanceMeters[1]) < OneRepOfEach
    /\ InTargetRange(genGoal[1].targetDistanceMeters[1]) - WrittenTotal < OneRepOfEach

\* C27 witness: the target is 6000 and the generated total is above it
C27_Witness ==
  /\ gpc = "rendered" /\ GivenTarget /\ genGoal[1].poolLengthMeters \in {25, 50}
  /\ genTarget = MaxTarget
  /\ WrittenTotal > MaxTarget

\* ------------------------------------------------------------------------
\* Workouts routes and the workouts table: each handler runs to its query
\* in one step, the query is one statement of the database, and the answer
\* follows from the result of the query.  The handlers of several clients
\* interleave at the query.  Of a row the model keeps the shorthand and the
\* total distance; of an answered request, its kind and its status.
\* ------------------------------------------------------------------------
MaxRows == 1

\* the shorthand of a request body: absent,
\* 200 FR, 2x50 FR @1:65 fast
Shorthands ==
  {None,
   Some(<<"2", "0", "0", " ", "F", "R">>),
   Some(<<"2", "x", "5", "0", " ", "F", "R", " ", "@", "1", ":", "6", "5", " ",
          "f", "a", "s", "t">>)}

\* interpretShorthand(shorthand).totals.totalDistanceMeters, for each
\* shorthand a body can carry
interpreted ==
  [body \in Shorthands \ {None} |->
     RunAlone(callEnter(Get(body))).totals.totalDistanceMeters]
interpretedTotal(shorthand) == interpreted[Some(shorthand)]

WorkoutRow(shorthand, totalDistanceMeters) ==
  [shorthand |-> shorthand, total_distance_meters |-> totalDistanceMeters]

\* the handlers up to the query: a body without a shorthand is answered 400
received(p, kind, id, body) ==
  IF body = None \/ Len(Get(body)) = 0
  THEN requests' = [requests EXCEPT ![p] =
         [IdleRequest EXCEPT !.kind = kind, !.pc = "answered", !.status = 400]]
  ELSE requests' = [requests EXCEPT ![p] =
         [IdleRequest EXCEPT !.kind = kind, !.id = id, !.pc = "query",
                             !.shorthand = body,
                             !.totalDistanceMeters = interpretedTotal(Get(body))]]

Receivable(p) == requests[p].pc \in {"idle", "answered"}
Creating == {q \in Procs : requests[q].kind = "post" /\ requests[q].pc = "query"}

Post(p) ==
  /\ Receivable(p)
  /\ lastId + Cardinality(Creating) < MaxRows
  /\ \E body \in Shorthands : received(p, "post", 0, body)
  /\ UNCHANGED <<workouts, lastId>>
  /\ UNCHANGED <<interpVars, timeVars, genVars, callVars, pdfVars>>

Put(p) ==
  /\ Receivable(p)
  /\ \E id \in 1..(MaxRows + 1) : \E body \in Shorthands : received(p, "put", id, body)
  /\ UNCHANGED <<workouts, lastId>>
  /\ UNCHANGED <<interpVars, timeVars, genVars, callVars, pdfVars>>

\* the delete handler has no body to look at
Delete(p) ==
  /\ Receivable(p)
  /\ \E id \in 1..(MaxRows + 1) :
       requests' = [requests EXCEPT ![p] =
                      [IdleRequest EXCEPT !.kind = "delete", !.id = id, !.pc = "query"]]
  /\ UNCHANGED <<workouts, lastId>>
  /\ UNCHANGED <<interpVars, timeVars, genVars, callVars, pdfVars>>

queried(p, result) ==
  requests' = [requests EXCEPT ![p].pc = "respond", ![p].result = result]

\* INSERT INTO workouts ... RETURNING
createWorkout(p) ==
  /\ requests[p].kind = "post" /\ requests[p].pc = "query"
  /\ lastId' = lastId + 1
  /\ workouts' = workouts @@ ((lastId + 1) :>
                   WorkoutRow(Get(requests[p].shorthand), requests[p].totalDistanceMeters))
  /\ queried(p, Some(lastId + 1))
  /\ UNCHANGED <<interpVars, timeVars, genVars, callVars, pdfVars>>

\* Variant of updatedRows: the total distance of the row is left as it was
updatedRowsStaleTotal(rows, id, shorthand, totalDistanceMeters) ==
  IF id \in DOMAIN rows
  THEN [rows EXCEPT ![id] = WorkoutRow(shorthand, rows[id].total_distance_meters)]
  ELSE rows

\* UPDATE workouts SET ... WHERE id = $1
updatedRows(rows, id, shorthand, totalDistanceMeters) ==
  IF id \in DOMAIN rows
  THEN [rows EXCEPT ![id] = WorkoutRow(shorthand, totalDistanceMeters)]
  ELSE rows

updateWorkoutById(p) ==
  /\ requests[p].kind = "put" /\ requests[p].pc = "query"
  /\ workouts' = updatedRows(workouts, requests[p].id, Get(requests[p].shorthand),
                             requests[p].totalDistanceMeters)
  /\ queried(p, IF requests[p].id \in DOMAIN workouts THEN Some(requests[p].id) ELSE None)
  /\ UNCHANGED lastId
  /\ UNCHANGED <<interpVars, timeVars, genVars, callVars, pdfVars>>

\* DELETE FROM workouts WHERE id = $1 RETURNING id
deleteWorkoutById(p) ==
  /\ requests[p].kind = "delete" /\ requests[p].pc = "query"
  /\ workouts' = [id \in DOMAIN workouts \ {requests[p].id} |-> workouts[id]]
  /\ queried(p, IF requests[p].id \in DOMAIN workouts THEN Some(requests[p].id) ELSE None)
  /\ UNCHANGED lastId
  /\ UNCHANGED <<interpVars, timeVars, genVars, callVars, pdfVars>>

\* the status of the answer: 201 for a created row, 404 for a PUT or a
\* DELETE that found no row, 204 for a deleted row, 200 for an updated row
answerStatus(r) ==
  IF r.kind = "post" THEN 201
  ELSE IF r.result = None THEN 404
  ELSE IF r.kind = "delete" THEN 204
  ELSE 200

Respond(p) ==
  /\ requests[p].pc = "respond"
  /\ requests' = [requests EXCEPT ![p] =
                    [IdleRequest EXCEPT !.kind = requests[p].kind, !.pc = "answered",
                                        !.status = answerStatus(requests[p])]]
  /\ UNCHANGED <<workouts, lastId>>
  /\ UNCHANGED <<interpVars, timeVars, genVars, callVars, pdfVars>>

NextStore ==
  \E p \in Procs :
    \/ Post(p) \/ Put(p) \/ Delete(p)
    \/ createWorkout(p) \/ updateWorkoutById(p) \/ deleteWorkoutById(p)
    \/ Respond(p)

SpecStore == Init /\ [][NextStore]_vars

\* the query of the request of p, and its answer, are the step taken
Queries(p, kind) ==
  requests[p].kind = kind /\ requests[p].pc = "query" /\ requests'[p].pc = "respond"
Answers(p, kind) ==
  requests[p].kind = kind /\ requests[p].pc = "respond" /\ requests'[p].pc = "answered"

MaxContexts == 2

Startable(p) == pdfCalls[p].pc \in {"idle", "settled"}
PdfCallsOpen == {q \in Procs : pdfCalls[q].kind = "pdf" /\ pdfCalls[q].pc # "settled"}

pdfCall(kind, at) == [IdlePdfCall EXCEPT !.kind = kind, !.pc = at]
settle(p, outcome) ==
  pdfCalls' = [pdfCalls EXCEPT ![p].pc = "settled", ![p].outcome = outcome]
await(p, at) == pdfCalls' = [pdfCalls EXCEPT ![p].pc = at]

\* initPlaywright: returns when a browser is stored, otherwise calls
\* chromium.launch and awaits it
InitStart(p) ==
  /\ Startable(p)
  /\ pdfCalls' = [pdfCalls EXCEPT ![p] =
                    IF browser # None
                    THEN [pdfCall("init", "settled") EXCEPT !.outcome = "resolved"]
                    ELSE pdfCall("init", "launching")]
  /\ UNCHANGED <<browser, launched, contexts, opened>>
  /\ UNCHANGED <<interpVars, timeVars, genVars, callVars, storeVars>>

\* htmlToPdf: without a browser it calls initPlaywright, which calls
\* chromium.launch; with a browser it calls browser.newContext
PdfStart(p) ==
  /\ Startable(p)
  /\ opened + Cardinality(PdfCallsOpen) < MaxContexts
  /\ pdfCalls' = [pdfCalls EXCEPT ![p] =
                    IF browser = None THEN pdfCall("pdf", "launching")
                    ELSE pdfCall("pdf", "newContext")]
  /\ UNCHANGED <<browser, launched, contexts, opened>>
  /\ UNCHANGED <<interpVars, timeVars, genVars, callVars, storeVars>>

\* chromium.launch resolves: the browser is assigned to the module-level
\* variable; initPlaywright returns, and htmlToPdf goes on to newContext
LaunchResolves(p) ==
  /\ pdfCalls[p].pc = "launching"
  /\ launched' = launched \cup {Cardinality(launched) + 1}
  /\ browser' = Some(Cardinality(launched) + 1)
  /\ IF pdfCalls[p].kind = "init" THEN settle(p, "resolved") ELSE await(p, "newContext")
  /\ UNCHANGED <<contexts, opened>>
  /\ UNCHANGED <<interpVars, timeVars, genVars, callVars, storeVars>>

LaunchRejects(p) ==
  /\ pdfCalls[p].pc = "launching"
  /\ settle(p, "rejected")
  /\ UNCHANGED <<browser, launched, contexts, opened>>
  /\ UNCHANGED <<interpVars, timeVars, genVars, callVars, storeVars>>

\* browser.newContext resolves: the context is open, context.newPage is
\* called outside the try statement
NewContextResolves(p) ==
  /\ pdfCalls[p].pc = "newContext"
  /\ contexts' = contexts \cup {opened + 1}
  /\ opened' = opened + 1
  /\ pdfCalls' = [pdfCalls EXCEPT ![p].pc = "newPage", ![p].context = Some(opened + 1)]
  /\ UNCHANGED <<browser, launched>>
  /\ UNCHANGED <<interpVars, timeVars, genVars, callVars, storeVars>>

NewContextRejects(p) ==
  /\ pdfCalls[p].pc = "newContext"
  /\ settle(p, "rejected")
  /\ UNCHANGED <<browser, launched, contexts, opened>>
  /\ UNCHANGED <<interpVars, timeVars, genVars, callVars, storeVars>>

NewPageResolves(p) ==
  /\ pdfCalls[p].pc = "newPage"
  /\ await(p, "setContent")
  /\ UNCHANGED <<browser, launched, contexts, opened>>
  /\ UNCHANGED <<interpVars, timeVars, genVars, callVars, storeVars>>

\* context.newPage rejects before the try statement is entered: htmlToPdf
\* rejects, the finally block does not run
NewPageRejects(p) ==
  /\ pdfCalls[p].pc = "newPage"
  /\ settle(p, "rejected")
  /\ UNCHANGED <<browser, launched, contexts, opened>>
  /\ UNCHANGED <<interpVars, timeVars, genVars, callVars, storeVars>>

SetContentResolves(p) ==
  /\ pdfCalls[p].pc = "setContent"
  /\ await(p, "pdf")
  /\ UNCHANGED <<browser, launched, contexts, opened>>
  /\ UNCHANGED <<interpVars, timeVars, genVars, callVars, storeVars>>

\* inside the try statement: the finally block calls context.close
finally(p, outcome) ==
  pdfCalls' = [pdfCalls EXCEPT ![p].pc = "closing", ![p].outcome = outcome]

SetContentRejects(p) ==
  /\ pdfCalls[p].pc = "setContent"
  /\ finally(p, "rejected")
  /\ UNCHANGED <<browser, launched, contexts, opened>>
  /\ UNCHANGED <<interpVars, timeVars, genVars, callVars, storeVars>>

PdfResolves(p) ==
  /\ pdfCalls[p].pc = "pdf"
  /\ finally(p, "resolved")
  /\ UNCHANGED <<browser, launched, contexts, opened>>
  /\ UNCHANGED <<interpVars, timeVars, genVars, callVars, storeVars>>

PdfRejects(p) ==
  /\ pdfCalls[p].pc = "pdf"
  /\ finally(p, "rejected")
  /\ UNCHANGED <<browser, launched, contexts, opened>>
  /\ UNCHANGED <<interpVars, timeVars, genVars, callVars, storeVars>>

\* context.close resolves and htmlToPdf settles
CloseResolves(p) ==
  /\ pdfCalls[p].pc = "closing"
  /\ contexts' = contexts \ {Get(pdfCalls[p].context)}
  /\ await(p, "settled")
  /\ UNCHANGED <<browser, launched, opened>>
  /\ UNCHANGED <<interpVars, timeVars, genVars, callVars, storeVars>>

NextPdf ==
  \E p \in Procs :
    \/ InitStart(p) \/ PdfStart(p)
    \/ LaunchResolves(p) \/ LaunchRejects(p)
    \/ NewContextResolves(p) \/ NewContextRejects(p)
    \/ NewPageResolves(p) \/ NewPageRejects(p)
    \/ SetContentResolves(p) \/ SetContentRejects(p)
    \/ PdfResolves(p) \/ PdfRejects(p)
    \/ CloseResolves(p)

SpecPdf == Init /\ [][NextPdf]_vars

\* ------------------------------------------------------------------------
\* C29: under any interleaving of initPlaywright and htmlToPdf calls,
\* Chromium is launched at most once, every launched browser is the one the
\* module-level variable holds, and an initPlaywright call that starts when
\* a browser is stored launches nothing
\* ------------------------------------------------------------------------
C29_LaunchOnce ==
  [][/\ Cardinality(launched') <= 1
     /\ \A b \in launched' : browser' = Some(b)
     /\ \A p \in Procs :
          (browser # None /\ Startable(p) /\ pdfCalls'[p] # pdfCalls[p]
             /\ pdfCalls'[p].kind = "init") =>
            pdfCalls'[p].pc = "settled" /\ launched' = launched]_vars

\* ------------------------------------------------------------------------
\* C30: every browser context htmlToPdf has opened is closed when the call
\* settles, whether it resolves or rejects
\* ------------------------------------------------------------------------
C30_ContextClosed ==
  \A p \in Procs :
    (pdfCalls[p].kind = "pdf" /\ pdfCalls[p].pc = "settled" /\ pdfCalls[p].context # None) =>
      Get(pdfCalls[p].context) \notin contexts

=============================================================================
